---- MODULE Spec2Model ----
(***************************************************************************)
(* State-machine model of the HUD server (server/hudserver/server.py):     *)
(* the audio ingress handlers (/esp32/audio, /stt), the bounded frame      *)
(* queues, the 20 Hz direction loop and the broadcast fan-out.             *)
(*                                                                         *)
(* Units.  Time is counted in half seconds (OneSecond = 2 clock units).    *)
(* RMS levels are integers, RmsFull being full scale (1.0).  Gains are     *)
(* counted in quarters (GainUnit = 4 is a gain of 1.0).                    *)
(***************************************************************************)
EXTENDS Integers, Sequences, FiniteSets, TLC

\* ------------------------------------------------------------------------
\* Bounds of the model (not program constants)
\* ------------------------------------------------------------------------
\* capacity of stt_q / analysis_q; the program uses maxsize=200, the model
\* keeps the same code with a capacity small enough to fill and overflow
QueueMaxSize == 2
\* binary frames that arrive on /esp32/audio, and on /stt, in one run
MaxFrames == 3
\* number of /esp32/audio connections
NumEspConns == 2
\* number of /stt connections
NumSttConns == 2

\* number of /events connections
NumEvConns == 2
\* broadcasts one task may start in one run
MaxBroadcasts == 2
\* last value of the clock
MaxTime == 2
\* phone-mic frames in a run of the direction loop
MaxMicFrames == 2
\* the hold of the fire, car horn and siren alarm on the clock of the model
\* (10 s, 2 s and 3 s in the program)
HoldFire == 3
HoldHorn == 1
HoldSiren == 2
\* last value of the clock in a run of the alarm loop
MaxAlarmTime == 4
MaxCalibrations == 1
MaxPoseTime == 3
MaxConfigFields == 2

EvConns == 1..NumEvConns
EspConns == 1..NumEspConns
SttConns == 1..NumSttConns

\* ------------------------------------------------------------------------
\* Program constants
\* ------------------------------------------------------------------------
DefaultSampleRateHz == 16000
DefaultFrameMs == 20
GainUnit == 4
RmsFull == 4
\* 1.0 s in clock units
OneSecond == 2

\* frames sent so far over the connections conn[1..n]
RECURSIVE SentTotal(_, _)
SentTotal(conn, n) == IF n = 0 THEN 0 ELSE conn[n].sent + SentTotal(conn, n - 1)

Min(a, b) == IF a < b THEN a ELSE b
Max(a, b) == IF a > b THEN a ELSE b

\* a Python dict: a function whose DOMAIN is the set of keys
DictSet(d, k, v) == (k :> v) @@ d
DictPop(d, k) == [x \in (DOMAIN d) \ {k} |-> d[x]]
EmptyDict == [x \in {} |-> 0]

VARIABLES
    now,              \* asyncio loop.time()
    esp32_by_role,    \* HudServer._esp32_by_role : role -> Esp32AudioState
    espConn,          \* per /esp32/audio connection: handler position and locals
    esp32_gain_left,  \* HudServer._esp32_gain_left  (quarters)
    esp32_gain_right, \* HudServer._esp32_gain_right (quarters)
    android_stt,      \* HudServer._android_stt : set of /stt connections
    android_mic_by_conn, \* HudServer._android_mic_by_conn : conn -> AndroidMicState
    sttConn,          \* per /stt connection: handler position and history
    radar_buf,        \* the four _SampleRing buffers fl, fr, bl, br
    radar_seen,       \* _radar_seen_fl/fr/bl/br
    android_events,   \* HudServer._android_events : set of /events connections
    evConn,           \* per /events connection: "new", "open", "closed" (peer gone), "done"
    inbox,            \* per /events connection: the messages delivered to the client
    bc,               \* per broadcasting task: the _broadcast call in progress
    head_pose,        \* HudServer._head_pose, <<>> for None
    torso_pose,       \* HudServer._torso_pose, <<>> for None
    cal_head_yaw0,    \* HudServer._cal_head_yaw0, <<>> for None
    cal_torso_yaw0,   \* HudServer._cal_torso_yaw0, <<>> for None
    smoothed_torso_direction_deg, \* HudServer._smoothed_torso_direction_deg, <<>> for None
    latest_direction_payload,     \* HudServer._latest_direction_payload, <<>> for {}
    radar_tracks,     \* HudServer._radar_tracks, the RadarTracks in insertion order
    radar_next_track_id, \* HudServer._radar_next_track_id
    radar_allocated,  \* history: every track id handed out so far
    alarm,            \* the locals of the alarm loop and its position
    alarm_active,     \* HudServer._alarm_fire_active, _alarm_horn_active, _alarm_siren_active
    config,           \* the tunables of config.update other than the two gains
    stt_audio_source, \* HudServer._stt_audio_source
    mux,              \* audio_frames() of _stt_loop: its locals and its position
    last_partial_words, \* last_partial_words of _stt_loop
    keyword_last_hit, \* HudServer._keyword_last_hit : keyword -> time
    stt_msg,          \* on_stt_message and _check_keywords: locals and position
    stt_client,       \* ElevenLabsRealtimeStt.run: its position and its sender tasks
    ev                \* history: the handler step taken last

\* the /events side and the broadcasts
eventVars == <<android_events, evConn, inbox, bc>>
\* poses and pose zeros
poseVars == <<head_pose, torso_pose, cal_head_yaw0, cal_torso_yaw0>>
\* what the direction loop keeps between ticks
dirVars == <<smoothed_torso_direction_deg, latest_direction_payload,
            radar_tracks, radar_next_track_id, radar_allocated>>
\* the STT loop: the frame muxer, the transcripts and the keyword check
sttVars == <<stt_audio_source, mux, last_partial_words, keyword_last_hit, stt_msg,
            stt_client>>
\* the alarm loop, the tunables and the STT loop
tuneVars == <<alarm, alarm_active, config, sttVars>>
\* everything the audio ingress handlers leave alone
hudVars == <<eventVars, poseVars, dirVars, tuneVars>>

vars == <<now, esp32_by_role, espConn, esp32_gain_left, esp32_gain_right,
          android_stt, android_mic_by_conn, sttConn,
          radar_buf, radar_seen, hudVars, ev>>

\* the state of the phone-mic side, left alone by the front-mic handler
phoneVars == <<android_stt, android_mic_by_conn, sttConn>>
\* the state of the front-mic side, left alone by the phone-mic handler
frontVars == <<esp32_by_role, espConn>>

\* ------------------------------------------------------------------------
\* asyncio.Queue(maxsize=QueueMaxSize)
\* ------------------------------------------------------------------------
\* a capacity check that lets one frame too many in
QueueFullLate(q) == Len(q) > QueueMaxSize

QueueFull(q) == Len(q) >= QueueMaxSize

\* ------------------------------------------------------------------------
\* Inputs of /esp32/audio
\* ------------------------------------------------------------------------
\* URL query: role and deviceId, "" when the parameter is absent
EspQueries == [role : {"", "left", "right"}, deviceId : {"", "d1"}]

\* first message of the connection
\*   binary    : a binary message
\*   nonjson   : text that json.loads rejects
\*   nonobject : JSON that is not an object (hello_obj.get raises)
\*   badfield  : a JSON object whose audio block cannot be read
\*               (audio not an object, or a non-numeric sampleRateHz)
\*   object    : a JSON object that parses; absent fields are "" / 0
EspHellos ==
    [kind : {"binary", "nonjson", "nonobject", "badfield"},
     role : {""}, deviceId : {""}, channels : {0}]
    \cup
    [kind : {"object"}, role : {"", "left", "right"},
     deviceId : {"", "d1", "d2"}, channels : {0, 1, 2}]

\* binary frames: length in bytes and amplitude of the PCM samples
EspFrameLens == {0, 1, 640, 1280}
Amps == {0, 4}

\* ------------------------------------------------------------------------
\* _SampleRing
\* ------------------------------------------------------------------------
\* samples kept per ring: int(16000 * RADAR_WINDOW_S), a configuration value
RadarSamples == 640

RECURSIVE RingEvict(_, _)
RingEvict(parts, total) ==
    IF total > RadarSamples /\ Len(parts) > 0
    THEN RingEvict(Tail(parts), total - Head(parts).size)
    ELSE [parts |-> parts, total |-> total]

\* append(samples): a chunk is [size]; a block longer than the ring keeps its tail
RingAppend(ring, chunk) ==
    IF RadarSamples <= 0 \/ chunk.size = 0 THEN ring
    ELSE LET c == [chunk EXCEPT !.size = Min(chunk.size, RadarSamples)]
         IN  RingEvict(Append(ring.parts, c), ring.total + c.size)

EmptyRing == [parts |-> <<>>, total |-> 0]

\* _SampleRing with the samples themselves: parts is the deque of blocks, a
\* block is the sequence of its samples; max_samples is the capacity
\* samples[-max_samples:]
LastSamples(samples, max_samples) ==
    SubSeq(samples, Len(samples) - Min(Len(samples), max_samples) + 1, Len(samples))

\* the while loop of append: whole blocks leave at the left
RECURSIVE SampleRingEvict(_, _, _)
SampleRingEvict(parts, total, max_samples) ==
    IF total > max_samples /\ Len(parts) > 0
    THEN SampleRingEvict(Tail(parts), total - Len(Head(parts)), max_samples)
    ELSE [parts |-> parts, total |-> total]

\* an append that keeps the head of a block longer than the ring
SampleRingAppendKeepsHead(ring, samples, max_samples) ==
    IF max_samples <= 0 \/ Len(samples) = 0 THEN ring
    ELSE LET block == SubSeq(samples, 1, Min(Len(samples), max_samples))
         IN  SampleRingEvict(Append(ring.parts, block), ring.total + Len(block),
                             max_samples)

\* append(samples)
SampleRingAppend(ring, samples, max_samples) ==
    IF max_samples <= 0 \/ Len(samples) = 0 THEN ring
    ELSE LET block == LastSamples(samples, max_samples)
         IN  SampleRingEvict(Append(ring.parts, block), ring.total + Len(block),
                             max_samples)

RECURSIVE Concatenate(_)
Concatenate(parts) ==
    IF parts = <<>> THEN <<>> ELSE Head(parts) \o Concatenate(Tail(parts))

\* get()
SampleRingGet(ring) ==
    IF ring.total <= 0 \/ ring.parts = <<>> THEN <<>>
    ELSE IF Len(ring.parts) = 1 THEN ring.parts[1]
    ELSE Concatenate(ring.parts)

\* ------------------------------------------------------------------------
\* /esp32/audio : HudServer._handle_esp32_audio
\* ------------------------------------------------------------------------
\* Python's  a or b  on strings
PyOr(a, b) == IF a # "" THEN a ELSE b

QueryRole(q) == PyOr(q.role, "unknown")
QueryDeviceId(q) == PyOr(q.deviceId, "unknown")
HelloRole(h, role) == PyOr(PyOr(h.role, role), "unknown")
HelloDeviceId(h, device_id) == PyOr(PyOr(h.deviceId, device_id), "unknown")

\* a hello check that only looks at the message being text
HelloParsesAnyText(h) == h.kind # "binary"

\* the try block around json.loads and the field conversions succeeds
HelloParses(h) == h.kind = "object"

SamplesPerFrame(sample_rate_hz, frame_ms) == (sample_rate_hz * frame_ms) \div 1000
EspBytesPerFrame(channels) ==
    SamplesPerFrame(DefaultSampleRateHz, DefaultFrameMs) * 2 * Max(1, channels)

\* int(audio.get("channels") or 1)
HelloChannels(h) == IF h.channels = 0 THEN 1 ELSE h.channels

NewEspState(c, h, hello_role, hello_device_id) ==
    [device_id |-> hello_device_id,
     role |-> hello_role,
     sample_rate_hz |-> DefaultSampleRateHz,
     channels |-> HelloChannels(h),
     frame_ms |-> DefaultFrameMs,
     bytes_per_frame |-> EspBytesPerFrame(HelloChannels(h)),
     stt_q |-> <<>>,
     analysis_q |-> <<>>,
     last_rms |-> 0,
     last_seen_monotonic |-> now,
     dropped_frames |-> 0,
     frames_received |-> 0,
     bad_frame_sizes |-> 0,
     \* history: frames removed from stt_q by the producer, installing connection
     evicted |-> 0,
     conn |-> c]

NoClose == [code |-> 0, reason |-> ""]

EspConnInit ==
    [pc |-> "new", role |-> "", device_id |-> "", hello_role |-> "",
     hello_device_id |-> "", close |-> NoClose, sent |-> 0]

\* a client opens /esp32/audio?deviceId=..&role=..; the handler blocks in recv()
EspConnect(c, q) ==
    /\ espConn[c].pc = "new"
    /\ espConn' = [espConn EXCEPT ![c] =
            [@ EXCEPT !.pc = "hello", !.role = QueryRole(q),
                      !.device_id = QueryDeviceId(q)]]
    /\ ev' = [op |-> "esp_connect", c |-> c, arg |-> "", key |-> ""]
    /\ UNCHANGED <<hudVars, now, esp32_by_role, esp32_gain_left, esp32_gain_right,
                   radar_buf, radar_seen, phoneVars>>

\* the first message arrives
EspHello(c, h) ==
    /\ espConn[c].pc = "hello"
    /\ IF h.kind = "binary" THEN
            /\ espConn' = [espConn EXCEPT ![c] =
                    [@ EXCEPT !.pc = "done",
                              !.close = [code |-> 1003, reason |-> "Expected JSON hello"]]]
            /\ UNCHANGED esp32_by_role
       ELSE IF ~HelloParses(h) THEN
            /\ espConn' = [espConn EXCEPT ![c] =
                    [@ EXCEPT !.pc = "done",
                              !.close = [code |-> 1003, reason |-> "Invalid hello"]]]
            /\ UNCHANGED esp32_by_role
       ELSE LET hello_role == HelloRole(h, espConn[c].role)
                hello_device_id == HelloDeviceId(h, espConn[c].device_id)
            IN  /\ esp32_by_role' = DictSet(esp32_by_role, hello_role,
                        NewEspState(c, h, hello_role, hello_device_id))
                /\ espConn' = [espConn EXCEPT ![c] =
                        [@ EXCEPT !.pc = "open", !.hello_role = hello_role,
                                  !.hello_device_id = hello_device_id]]
    /\ ev' = [op |-> "esp_hello", c |-> c, arg |-> h.kind, key |-> ""]
    /\ UNCHANGED <<hudVars, now, esp32_gain_left, esp32_gain_right, radar_buf, radar_seen,
                   phoneVars>>

\* the client goes away before any hello: recv() raises ConnectionClosed
EspAbort(c) ==
    /\ espConn[c].pc = "hello"
    /\ espConn' = [espConn EXCEPT ![c] = [@ EXCEPT !.pc = "done"]]
    /\ ev' = [op |-> "esp_abort", c |-> c, arg |-> "", key |-> ""]
    /\ UNCHANGED <<hudVars, now, esp32_by_role, esp32_gain_left, esp32_gain_right,
                   radar_buf, radar_seen, phoneVars>>

\* np.frombuffer(msg, dtype=np.int16) raises on a buffer of odd length
PcmDecodes(len) == len % 2 = 0
PcmSize(len) == len \div 2

EspGain(role) ==
    IF role = "left" THEN esp32_gain_left
    ELSE IF role = "right" THEN esp32_gain_right
    ELSE GainUnit

\* RMS of the frame after the gain trim and the clip to [-1, 1]
EspRms(amp, gain) == Min((amp * Max(0, gain)) \div GainUnit, RmsFull)

\* a drop-oldest push that forgets to count the eviction
SttQueuePushUncounted(s, item) ==
    LET q1 == IF QueueFull(s.stt_q) THEN Tail(s.stt_q) ELSE s.stt_q
    IN  [s EXCEPT !.stt_q = Append(q1, item),
                  !.evicted = @ + (Len(s.stt_q) - Len(q1))]

\* a push that makes room by removing the newest queued frame
SttQueuePushDropNewest(s, item) ==
    LET full == QueueFull(s.stt_q)
        q1 == IF full THEN SubSeq(s.stt_q, 1, Len(s.stt_q) - 1) ELSE s.stt_q
    IN  [s EXCEPT !.stt_q = Append(q1, item),
                  !.dropped_frames = IF full THEN @ + 1 ELSE @,
                  !.evicted = @ + (Len(s.stt_q) - Len(q1))]

\* drop-oldest push into stt_q, counting the eviction
SttQueuePush(s, item) ==
    LET full == QueueFull(s.stt_q)
        q1 == IF full THEN Tail(s.stt_q) ELSE s.stt_q
        d1 == IF full THEN s.dropped_frames + 1 ELSE s.dropped_frames
        putOk == ~QueueFull(q1)
    IN  [s EXCEPT !.stt_q = IF putOk THEN Append(q1, item) ELSE q1,
                  !.dropped_frames = IF putOk THEN d1 ELSE d1 + 1,
                  !.evicted = @ + (Len(s.stt_q) - Len(q1))]

\* drop-oldest push into analysis_q, not counted
AnalysisQueuePush(s, item) ==
    LET q1 == IF QueueFull(s.analysis_q) THEN Tail(s.analysis_q) ELSE s.analysis_q
    IN  [s EXCEPT !.analysis_q = IF ~QueueFull(q1) THEN Append(q1, item) ELSE q1]

RingOfRole(role) == IF role = "left" THEN "fl" ELSE "fr"

\* a binary frame f = [len, amp] arrives on connection c
EspFrame(c, f) ==
    /\ espConn[c].pc = "open"
    /\ SentTotal(espConn, NumEspConns) < MaxFrames
    /\ LET hello_role == espConn[c].hello_role
           item == [path |-> "esp", c |-> c, n |-> espConn[c].sent + 1, kind |-> "raw"]
       IN  /\ espConn' = [espConn EXCEPT ![c] = [@ EXCEPT !.sent = @ + 1]]
           /\ ev' = [op |-> "esp_frame", c |-> c, arg |-> f.len, key |-> hello_role]
           /\ IF hello_role \notin DOMAIN esp32_by_role THEN
                   UNCHANGED <<esp32_by_role, radar_buf, radar_seen>>
              ELSE LET state == esp32_by_role[hello_role]
                       s1 == [state EXCEPT
                                !.last_seen_monotonic = now,
                                !.frames_received = @ + 1,
                                !.bad_frame_sizes =
                                    IF f.len # state.bytes_per_frame THEN @ + 1 ELSE @]
                       rmsOk == PcmDecodes(f.len) /\ PcmSize(f.len) > 0
                       s2 == IF rmsOk
                             THEN [s1 EXCEPT !.last_rms = EspRms(f.amp, EspGain(state.role))]
                             ELSE s1
                       toRing == rmsOk /\ state.role \in {"left", "right"}
                       s3 == AnalysisQueuePush(SttQueuePush(s2, item), item)
                   IN  /\ esp32_by_role' = DictSet(esp32_by_role, hello_role, s3)
                       /\ radar_buf' =
                            IF toRing
                            THEN [radar_buf EXCEPT ![RingOfRole(state.role)] =
                                    RingAppend(@, [size |-> PcmSize(f.len)])]
                            ELSE radar_buf
                       /\ radar_seen' =
                            IF toRing
                            THEN [radar_seen EXCEPT ![RingOfRole(state.role)] = now]
                            ELSE radar_seen
    /\ UNCHANGED <<hudVars, now, esp32_gain_left, esp32_gain_right, phoneVars>>

\* a text (diagnostic) message after the hello is skipped
EspText(c) ==
    /\ espConn[c].pc = "open"
    /\ ev' = [op |-> "esp_text", c |-> c, arg |-> "", key |-> ""]
    /\ UNCHANGED <<hudVars, now, esp32_by_role, espConn, esp32_gain_left, esp32_gain_right,
                   radar_buf, radar_seen, phoneVars>>

\* a finally block that removes whatever entry the role has
ExitRemovesAnyDevice(table, hello_role, hello_device_id) ==
    hello_role \in DOMAIN table

\* the finally block removes the entry when the stored device_id matches
ExitRemoves(table, hello_role, hello_device_id) ==
    /\ hello_role \in DOMAIN table
    /\ table[hello_role].device_id = hello_device_id

\* the connection ends (close, error or cancellation): the finally block runs
EspExit(c) ==
    /\ espConn[c].pc = "open"
    /\ espConn' = [espConn EXCEPT ![c] = [@ EXCEPT !.pc = "done"]]
    /\ esp32_by_role' =
            IF ExitRemoves(esp32_by_role, espConn[c].hello_role, espConn[c].hello_device_id)
            THEN DictPop(esp32_by_role, espConn[c].hello_role)
            ELSE esp32_by_role
    /\ ev' = [op |-> "esp_exit", c |-> c, arg |-> "", key |-> espConn[c].hello_role]
    /\ UNCHANGED <<hudVars, now, esp32_gain_left, esp32_gain_right, radar_buf, radar_seen,
                   phoneVars>>

\* ------------------------------------------------------------------------
\* /stt : HudServer._handle_android_stt
\* ------------------------------------------------------------------------
\* HudServer._android_mic_force_channels
AndroidMicForceChannels == 2

\* text messages of /stt
\*   nonjson : text that json.loads rejects
\*   other   : a JSON object whose type is neither audio.hello nor hello
\*   hello   : a hello; format, sampleRateHz and channels as sent (0 = absent)
SttTexts ==
    [kind : {"nonjson", "other"}, deviceId : {""}, format : {""}, sampleRateHz : {0},
     channels : {0}]
    \cup
    [kind : {"hello"}, deviceId : {"", "p1"}, format : {"", "pcm_s16le", "pcm_f32le"},
     sampleRateHz : {0, 16000, 48000}, channels : {0, 1, 2, 3}]

HelloFormat(m) == PyOr(m.format, "pcm_s16le")
HelloSampleRateHz(m) == IF m.sampleRateHz = 0 THEN DefaultSampleRateHz ELSE m.sampleRateHz

\* hello checks that leave out the sample rate
SttHelloValidAnyRate(m) ==
    /\ HelloFormat(m) = "pcm_s16le"
    /\ HelloChannels(m) \in {1, 2}

\* the checks a /stt hello must pass before a state is created
SttHelloValid(m) ==
    /\ HelloFormat(m) = "pcm_s16le"
    /\ HelloSampleRateHz(m) = 16000
    /\ HelloChannels(m) \in {1, 2}

ForcedChannels(channels) ==
    IF AndroidMicForceChannels \in {1, 2} /\ channels # AndroidMicForceChannels
    THEN AndroidMicForceChannels ELSE channels

NewMicState(device_id, channels) ==
    LET mono_bytes_per_frame == SamplesPerFrame(DefaultSampleRateHz, DefaultFrameMs) * 2
    IN  [device_id |-> device_id,
         sample_rate_hz |-> DefaultSampleRateHz,
         channels |-> channels,
         frame_ms |-> DefaultFrameMs,
         bytes_per_frame |-> mono_bytes_per_frame * channels,
         mono_bytes_per_frame |-> mono_bytes_per_frame,
         stt_q |-> <<>>,
         analysis_q |-> <<>>,
         last_rms |-> 0,
         last_rms_left |-> 0,
         last_rms_right |-> 0,
         last_seen_monotonic |-> now,
         dropped_frames |-> 0,
         \* history: frames removed from stt_q by the producer
         evicted |-> 0,
         \* position of the entry in the dict's iteration order
         ord |-> 0]

\* a new key goes to the end of the dict, an existing key keeps its place
DictOrd(d, k) ==
    IF k \in DOMAIN d THEN d[k].ord
    ELSE IF DOMAIN d = {} THEN 1
    ELSE 1 + (CHOOSE m \in {d[j].ord : j \in DOMAIN d} :
                 \A j \in DOMAIN d : d[j].ord <= m)

\* the state a binary frame is handled with when the connection has none
DefaultMicState ==
    NewMicState("android",
                IF AndroidMicForceChannels \in {1, 2} THEN AndroidMicForceChannels ELSE 1)

SttConnInit == [pc |-> "new", sent |-> 0, badHello |-> FALSE, goodHello |-> FALSE]

\* a client opens /stt: the connection joins the set and gets the status line
SttConnect(c) ==
    /\ sttConn[c].pc = "new"
    /\ sttConn' = [sttConn EXCEPT ![c] = [@ EXCEPT !.pc = "open"]]
    /\ android_stt' = android_stt \cup {c}
    /\ ev' = [op |-> "stt_connect", c |-> c, arg |-> "", key |-> ""]
    /\ UNCHANGED <<hudVars, now, frontVars, esp32_gain_left, esp32_gain_right,
                   android_mic_by_conn, radar_buf, radar_seen>>

\* a text message m arrives on /stt
SttText(c, m) ==
    /\ sttConn[c].pc = "open"
    /\ IF m.kind = "hello" /\ SttHelloValid(m)
       THEN /\ android_mic_by_conn' = DictSet(android_mic_by_conn, c,
                    [NewMicState(PyOr(m.deviceId, "android"),
                                 ForcedChannels(HelloChannels(m)))
                        EXCEPT !.ord = DictOrd(android_mic_by_conn, c)])
            /\ sttConn' = [sttConn EXCEPT ![c] = [@ EXCEPT !.goodHello = TRUE]]
       ELSE /\ UNCHANGED android_mic_by_conn
            /\ sttConn' = [sttConn EXCEPT ![c] =
                    [@ EXCEPT !.badHello = @ \/ (m.kind = "hello")]]
    /\ ev' = [op |-> "stt_text", c |-> c, arg |-> m, key |-> ""]
    /\ UNCHANGED <<hudVars, now, frontVars, esp32_gain_left, esp32_gain_right,
                   android_stt, radar_buf, radar_seen>>

\* binary frames of /stt: length in bytes, amplitude of the left and right samples
SttFrames ==
    [len : {0, 1, 2, 640}, l : Amps, r : {0}] \cup [len : {1280}, l : Amps, r : Amps]

\* a redetection that switches to stereo but never back to mono
RedetectStereoOnly(state, len) ==
    IF state.channels = 1 /\ len = state.mono_bytes_per_frame * 2
    THEN [state EXCEPT !.channels = 2, !.bytes_per_frame = state.mono_bytes_per_frame * 2]
    ELSE state

\* mono <-> stereo redetection from the frame length
Redetect(state, len) ==
    IF state.channels = 1 /\ len = state.mono_bytes_per_frame * 2
    THEN [state EXCEPT !.channels = 2, !.bytes_per_frame = state.mono_bytes_per_frame * 2]
    ELSE IF state.channels = 2 /\ len = state.mono_bytes_per_frame
    THEN [state EXCEPT !.channels = 1, !.bytes_per_frame = state.mono_bytes_per_frame]
    ELSE state

\* the frame yields a frame_out: it decodes and has a sample for every channel
MicFrameUsable(channels, len) ==
    /\ PcmDecodes(len)
    /\ PcmSize(len) > 0
    /\ channels = 2 => PcmSize(len) \div 2 > 0

\* a binary frame f = [len, l, r] arrives on connection c
SttFrame(c, f) ==
    /\ sttConn[c].pc = "open"
    /\ SentTotal(sttConn, NumSttConns) < MaxFrames
    /\ LET state0 == IF c \in DOMAIN android_mic_by_conn
                     THEN android_mic_by_conn[c] ELSE DefaultMicState
           s1 == Redetect([state0 EXCEPT !.last_seen_monotonic = now,
                                         !.ord = DictOrd(android_mic_by_conn, c)],
                          f.len)
           usable == MicFrameUsable(s1.channels, f.len)
           stereo == s1.channels = 2
           left == f.l
           right == IF f.len = 1280 THEN f.r ELSE f.l
           s2 == IF stereo
                 THEN [s1 EXCEPT !.last_rms_left = left, !.last_rms_right = right,
                                 !.last_rms = (left + right) \div 2]
                 ELSE [s1 EXCEPT !.last_rms = left, !.last_rms_left = left,
                                 !.last_rms_right = left]
           n == IF stereo THEN PcmSize(f.len) \div 2 ELSE PcmSize(f.len)
           item == [path |-> "stt", c |-> c, n |-> sttConn[c].sent + 1,
                    kind |-> IF stereo THEN "downmix" ELSE "raw"]
           s3 == AnalysisQueuePush(SttQueuePush(s2, item), item)
           chunk == [size |-> n]
       IN  /\ sttConn' = [sttConn EXCEPT ![c] = [@ EXCEPT !.sent = @ + 1]]
           /\ ev' = [op |-> "stt_frame", c |-> c, arg |-> f.len, key |-> ""]
           /\ android_mic_by_conn' =
                DictSet(android_mic_by_conn, c, IF usable THEN s3 ELSE s1)
           /\ radar_buf' =
                IF usable
                THEN [radar_buf EXCEPT !["bl"] = RingAppend(@, chunk),
                                       !["br"] = RingAppend(@, chunk)]
                ELSE radar_buf
           /\ radar_seen' =
                IF usable
                THEN [radar_seen EXCEPT !["bl"] = now, !["br"] = now]
                ELSE radar_seen
    /\ UNCHANGED <<hudVars, now, frontVars, esp32_gain_left, esp32_gain_right, android_stt>>

\* a handler exit that leaves the phone-mic state in the table
SttExitKeepsState(c) ==
    /\ sttConn[c].pc = "open"
    /\ sttConn' = [sttConn EXCEPT ![c] = [@ EXCEPT !.pc = "done"]]
    /\ android_stt' = android_stt \ {c}
    /\ android_mic_by_conn' = android_mic_by_conn
    /\ ev' = [op |-> "stt_exit", c |-> c, arg |-> "", key |-> ""]
    /\ UNCHANGED <<hudVars, now, frontVars, esp32_gain_left, esp32_gain_right,
                   radar_buf, radar_seen>>

\* the /stt connection ends: the finally block runs
SttExit(c) ==
    /\ sttConn[c].pc = "open"
    /\ sttConn' = [sttConn EXCEPT ![c] = [@ EXCEPT !.pc = "done"]]
    /\ android_stt' = android_stt \ {c}
    /\ android_mic_by_conn' = DictPop(android_mic_by_conn, c)
    /\ ev' = [op |-> "stt_exit", c |-> c, arg |-> "", key |-> ""]
    /\ UNCHANGED <<hudVars, now, frontVars, esp32_gain_left, esp32_gain_right,
                   radar_buf, radar_seen>>

\* ------------------------------------------------------------------------
\* Consumers: state.stt_q.get() of the STT muxer, analysis_q.get() of the
\* alarm loop
\* ------------------------------------------------------------------------
GetEsp(role, q) ==
    /\ role \in DOMAIN esp32_by_role
    /\ Len(esp32_by_role[role][q]) > 0
    /\ esp32_by_role' = [esp32_by_role EXCEPT ![role] = [@ EXCEPT ![q] = Tail(@)]]
    /\ ev' = [op |-> "get_esp", c |-> 0, arg |-> Head(esp32_by_role[role][q]), key |-> role]
    /\ UNCHANGED <<hudVars, now, espConn, esp32_gain_left, esp32_gain_right, phoneVars,
                   radar_buf, radar_seen>>

GetMic(c, q) ==
    /\ c \in DOMAIN android_mic_by_conn
    /\ Len(android_mic_by_conn[c][q]) > 0
    /\ android_mic_by_conn' =
            [android_mic_by_conn EXCEPT ![c] = [@ EXCEPT ![q] = Tail(@)]]
    /\ ev' = [op |-> "get_mic", c |-> c, arg |-> Head(android_mic_by_conn[c][q]), key |-> ""]
    /\ UNCHANGED <<hudVars, now, frontVars, esp32_gain_left, esp32_gain_right, android_stt,
                   sttConn, radar_buf, radar_seen>>

\* ------------------------------------------------------------------------
\* /events connections : HudServer._handle_android_events
\* ------------------------------------------------------------------------
\* a message delivered to a client: its type and, for direction.ui, the
\* number of the publishing tick
StatusMsg == [type |-> "status", tick |-> 0]

\* a client opens /events: the connection joins the set and gets the status line
EvConnect(c) ==
    /\ evConn[c] = "new"
    /\ evConn' = [evConn EXCEPT ![c] = "open"]
    /\ android_events' = android_events \cup {c}
    /\ inbox' = [inbox EXCEPT ![c] = Append(@, StatusMsg)]
    /\ ev' = [op |-> "ev_connect", c |-> c, arg |-> "", key |-> ""]
    /\ UNCHANGED <<now, frontVars, phoneVars, esp32_gain_left, esp32_gain_right,
                   radar_buf, radar_seen, tuneVars, bc, poseVars, dirVars>>

\* the peer goes away: from now on a send on the connection raises
EvClose(c) ==
    /\ evConn[c] \in {"open", "slow"}
    /\ evConn' = [evConn EXCEPT ![c] = "closed"]
    /\ ev' = [op |-> "ev_close", c |-> c, arg |-> "", key |-> ""]
    /\ UNCHANGED <<now, frontVars, phoneVars, esp32_gain_left, esp32_gain_right,
                   radar_buf, radar_seen, tuneVars, android_events, inbox, bc, poseVars, dirVars>>

\* the peer stops reading: the write buffer of the connection fills up
EvStall(c) ==
    /\ evConn[c] = "open"
    /\ evConn' = [evConn EXCEPT ![c] = "slow"]
    /\ ev' = [op |-> "ev_stall", c |-> c, arg |-> "", key |-> ""]
    /\ UNCHANGED <<now, frontVars, phoneVars, esp32_gain_left, esp32_gain_right,
                   radar_buf, radar_seen, tuneVars, android_events, inbox, bc, poseVars, dirVars>>

\* the peer reads again
EvResume(c) ==
    /\ evConn[c] = "slow"
    /\ evConn' = [evConn EXCEPT ![c] = "open"]
    /\ ev' = [op |-> "ev_resume", c |-> c, arg |-> "", key |-> ""]
    /\ UNCHANGED <<now, frontVars, phoneVars, esp32_gain_left, esp32_gain_right,
                   radar_buf, radar_seen, tuneVars, android_events, inbox, bc, poseVars, dirVars>>

\* the handler leaves its receive loop: the finally block discards the connection
EvExit(c) ==
    /\ evConn[c] = "closed"
    /\ evConn' = [evConn EXCEPT ![c] = "done"]
    /\ android_events' = android_events \ {c}
    /\ ev' = [op |-> "ev_exit", c |-> c, arg |-> "", key |-> ""]
    /\ UNCHANGED <<now, frontVars, phoneVars, esp32_gain_left, esp32_gain_right,
                   radar_buf, radar_seen, tuneVars, inbox, bc, poseVars, dirVars>>

\* ------------------------------------------------------------------------
\* HudServer._broadcast, called by _broadcast_events
\* ------------------------------------------------------------------------
\* the tasks that broadcast to the /events set
Broadcasters == {"direction", "status", "alarm", "keyword"}

\* todo: members of list(conns) not yet sent to; dead: members whose send raised
\* cur: the member whose send the loop is waiting in, 0 when it waits in none
\* history: snap = list(conns), sentOk = members whose send returned,
\*          count = broadcasts started by the task
IdleBroadcast ==
    [pc |-> "idle", todo |-> {}, dead |-> {}, msg |-> StatusMsg,
     snap |-> {}, sentOk |-> {}, count |-> 0, cur |-> 0]

\* a broadcast that sends the payload of the task's previous broadcast again
StartBroadcastStale(b, msg) ==
    IF android_events = {}
    THEN bc' = [bc EXCEPT ![b] = [@ EXCEPT !.count = @ + 1]]
    ELSE bc' = [bc EXCEPT ![b] =
            [pc |-> "sending", todo |-> android_events, dead |-> {}, msg |-> bc[b].msg,
             snap |-> android_events, sentOk |-> {}, count |-> bc[b].count + 1,
             cur |-> 0]]

\* _broadcast_events(obj): nothing happens when the set is empty
StartBroadcast(b, msg) ==
    IF android_events = {}
    THEN bc' = [bc EXCEPT ![b] = [@ EXCEPT !.count = @ + 1]]
    ELSE bc' = [bc EXCEPT ![b] =
            [pc |-> "sending", todo |-> android_events, dead |-> {}, msg |-> msg,
             snap |-> android_events, sentOk |-> {}, count |-> bc[b].count + 1,
             cur |-> 0]]

\* c.send(payload) raises when the connection is closed
SendRaises(c) == evConn[c] \notin {"open", "slow"}

\* c.send(payload) waits for the write buffer to drain while the peer does
\* not read
SendBlocks(c) == evConn[c] = "slow"

\* the loop enters  await c.send(payload)  for a member whose buffer is full
\* and stays in it
BcAwait(b, c) ==
    /\ bc[b].pc = "sending"
    /\ bc[b].cur = 0
    /\ c \in bc[b].todo
    /\ SendBlocks(c)
    /\ bc' = [bc EXCEPT ![b] = [@ EXCEPT !.cur = c]]
    /\ ev' = [op |-> "bc_await", c |-> c, arg |-> "", key |-> b]
    /\ UNCHANGED <<now, frontVars, phoneVars, esp32_gain_left, esp32_gain_right,
                   radar_buf, radar_seen, tuneVars, android_events, evConn, inbox,
                   poseVars, dirVars>>

\* a broadcast that leaves the dead members in the set
DiscardNothing(conns, dead) == conns

\* for c in dead: conns.discard(c)
DiscardDead(conns, dead) == conns \ dead

\* one  await c.send(payload)  of the loop; after the last one the dead
\* members are discarded
BcSend(b, c) ==
    /\ bc[b].pc = "sending"
    /\ c \in bc[b].todo
    /\ bc[b].cur \in {0, c}
    /\ ~SendBlocks(c)
    /\ LET raised == SendRaises(c)
           todo == bc[b].todo \ {c}
           dead == IF raised THEN bc[b].dead \cup {c} ELSE bc[b].dead
       IN  /\ inbox' = IF raised THEN inbox
                       ELSE [inbox EXCEPT ![c] = Append(@, bc[b].msg)]
           /\ bc' = [bc EXCEPT ![b] =
                    [@ EXCEPT !.todo = todo, !.dead = dead, !.cur = 0,
                              !.sentOk = IF raised THEN @ ELSE @ \cup {c},
                              !.pc = IF todo = {} THEN "idle" ELSE "sending"]]
           /\ android_events' = IF todo = {} THEN DiscardDead(android_events, dead)
                                ELSE android_events
           /\ ev' = [op |-> "bc_send", c |-> c,
                     arg |-> IF raised THEN "raised" ELSE "sent", key |-> b]
    /\ UNCHANGED <<now, frontVars, phoneVars, esp32_gain_left, esp32_gain_right,
                   radar_buf, radar_seen, tuneVars, evConn, poseVars, dirVars>>

\* _status_loop: every second a status snapshot is broadcast
StatusTick ==
    /\ bc["status"].pc = "idle"
    /\ bc["status"].count < MaxBroadcasts
    /\ StartBroadcast("status", StatusMsg)
    /\ ev' = [op |-> "status_tick", c |-> 0, arg |-> "", key |-> ""]
    /\ UNCHANGED <<now, frontVars, phoneVars, esp32_gain_left, esp32_gain_right,
                   radar_buf, radar_seen, tuneVars, android_events, evConn, inbox,
                   poseVars, dirVars>>

\* the clock advances
Tick ==
    /\ now < MaxTime
    /\ now' = now + 1
    /\ ev' = [op |-> "tick", c |-> 0, arg |-> "", key |-> ""]
    /\ UNCHANGED <<frontVars, phoneVars, esp32_gain_left, esp32_gain_right,
                   radar_buf, radar_seen, hudVars>>

\* ------------------------------------------------------------------------
\* HudServer._direction_loop and its helpers
\* ------------------------------------------------------------------------
Abs(x) == IF x < 0 THEN -x ELSE x
Sign(x) == IF x < 0 THEN -1 ELSE IF x > 0 THEN 1 ELSE 0
\* division rounding toward zero: results are kept in whole degrees
DivTrunc(a, b) == Sign(a) * (Abs(a) \div b)

\* _wrap_deg, with Python's non-negative remainder
WrapDeg(deg) == ((deg + 180) % 360) - 180

\* _lerp_angle with t = 0.25
LerpAngle(a_deg, b_deg) == WrapDeg(a_deg + DivTrunc(WrapDeg(b_deg - a_deg), 4))

\* _stabilize_direction: the new value of _smoothed_torso_direction_deg
StabilizeDirection(raw_direction_deg) ==
    IF smoothed_torso_direction_deg = <<>> THEN raw_direction_deg
    ELSE LerpAngle(smoothed_torso_direction_deg[1], raw_direction_deg)

\* _fresh_head_pose / _fresh_torso_pose: stale only when older than one second
FreshPose(pose) ==
    IF pose = <<>> THEN <<>>
    ELSE IF (now - pose[1].last_seen_monotonic) > OneSecond THEN <<>>
    ELSE pose

\* _maybe_auto_calibrate_pose_zero runs inside _head_to_torso_delta_yaw_deg:
\* the zeros after the call, as <<head zero, torso zero>>
CalAfterDeltaYaw ==
    IF /\ FreshPose(head_pose) # <<>>
       /\ FreshPose(torso_pose) # <<>>
       /\ cal_head_yaw0 = <<>>
       /\ cal_torso_yaw0 = <<>>
    THEN << <<head_pose[1].yaw_deg>>, <<torso_pose[1].yaw_deg>> >>
    ELSE <<cal_head_yaw0, cal_torso_yaw0>>

\* a difference that is computed from poses that are no longer fresh
HeadToTorsoDeltaYawDegStale ==
    IF head_pose = <<>> \/ torso_pose = <<>> THEN 0
    ELSE IF cal_head_yaw0 = <<>> \/ cal_torso_yaw0 = <<>> THEN 0
    ELSE WrapDeg(WrapDeg(head_pose[1].yaw_deg - cal_head_yaw0[1])
                 - WrapDeg(torso_pose[1].yaw_deg - cal_torso_yaw0[1]))

\* _head_to_torso_delta_yaw_deg
HeadToTorsoDeltaYawDeg ==
    IF FreshPose(head_pose) = <<>> \/ FreshPose(torso_pose) = <<>> THEN 0
    ELSE IF CalAfterDeltaYaw[1] = <<>> \/ CalAfterDeltaYaw[2] = <<>> THEN 0
    ELSE WrapDeg(WrapDeg(head_pose[1].yaw_deg - CalAfterDeltaYaw[1][1])
                 - WrapDeg(torso_pose[1].yaw_deg - CalAfterDeltaYaw[2][1]))

\* a freshness test that still accepts an age of exactly one second
RoleFreshLate(role) ==
    /\ role \in DOMAIN esp32_by_role
    /\ (now - esp32_by_role[role].last_seen_monotonic) <= OneSecond

\* a role is registered and was seen less than one second ago
RoleFresh(role) ==
    /\ role \in DOMAIN esp32_by_role
    /\ (now - esp32_by_role[role].last_seen_monotonic) < OneSecond

HasFront == RoleFresh("left") /\ RoleFresh("right")

\* max(values, key=last_seen_monotonic): the first of the latest states
LatestMic ==
    CHOOSE k \in DOMAIN android_mic_by_conn :
        \A j \in DOMAIN android_mic_by_conn :
            \/ android_mic_by_conn[k].last_seen_monotonic
                 > android_mic_by_conn[j].last_seen_monotonic
            \/ /\ android_mic_by_conn[k].last_seen_monotonic
                    = android_mic_by_conn[j].last_seen_monotonic
               /\ android_mic_by_conn[k].ord <= android_mic_by_conn[j].ord

\* mic of the loop: the key of the chosen state, 0 for None
DirectionMic ==
    IF DOMAIN android_mic_by_conn = {} THEN 0
    ELSE IF (now - android_mic_by_conn[LatestMic].last_seen_monotonic) >= OneSecond
    THEN 0
    ELSE LatestMic

HasBack == DirectionMic # 0 /\ android_mic_by_conn[DirectionMic].channels = 2

\* arctan2(x, y) in whole degrees for integers x, y, linear within each octant
Atan2Deg(x, y) ==
    IF x = 0 /\ y = 0 THEN 0
    ELSE IF x = 0 THEN (IF y > 0 THEN 0 ELSE 180)
    ELSE IF Abs(y) >= Abs(x)
    THEN (IF y > 0 THEN Sign(x) * ((45 * Abs(x)) \div Abs(y))
                   ELSE Sign(x) * (180 - ((45 * Abs(x)) \div Abs(y))))
    ELSE (IF y >= 0 THEN Sign(x) * (90 - ((45 * Abs(y)) \div Abs(x)))
                    ELSE Sign(x) * (90 + ((45 * Abs(y)) \div Abs(x))))

\* np.clip(total * gain, 0, 1) with the gain in halves, RmsFull standing for 1.0
Intensity(total, gain2) == Min((Max(0, total) * gain2) \div 2, RmsFull)

DirectionGainQuad2 == 9
DirectionGainLr2 == 12
DirectionGainMono2 == 12
BackBalanceGainDeg == 150

\* a last resort that prefers a front microphone to the phone
LastResortFrontFirst ==
    IF RoleFresh("left")
    THEN [source |-> "front", raw |-> 0, rms |-> esp32_by_role["left"].last_rms]
    ELSE IF RoleFresh("right")
    THEN [source |-> "front", raw |-> 0, rms |-> esp32_by_role["right"].last_rms]
    ELSE IF DirectionMic # 0
    THEN [source |-> "back", raw |-> 180,
          rms |-> android_mic_by_conn[DirectionMic].last_rms]
    ELSE [source |-> "", raw |-> 0, rms |-> 0]

\* the last resort of the loop: whichever single microphone is available
LastResort ==
    IF DirectionMic # 0
    THEN [source |-> "back", raw |-> 180,
          rms |-> android_mic_by_conn[DirectionMic].last_rms]
    ELSE IF RoleFresh("left")
    THEN [source |-> "front", raw |-> 0, rms |-> esp32_by_role["left"].last_rms]
    ELSE IF RoleFresh("right")
    THEN [source |-> "front", raw |-> 0, rms |-> esp32_by_role["right"].last_rms]
    ELSE [source |-> "", raw |-> 0, rms |-> 0]

\* what one pass of the loop derives: source "" stands for the continue
DirectionOfTick ==
    LET fl == IF HasFront THEN Max(0, esp32_by_role["left"].last_rms) ELSE 0
        fr == IF HasFront THEN Max(0, esp32_by_role["right"].last_rms) ELSE 0
        bl == IF HasBack THEN Max(0, android_mic_by_conn[DirectionMic].last_rms_left) ELSE 0
        br == IF HasBack THEN Max(0, android_mic_by_conn[DirectionMic].last_rms_right) ELSE 0
    IN  IF HasFront /\ HasBack
        THEN [source |-> "quad",
              raw |-> Atan2Deg((br - bl) * (fl + fr + bl + br),
                               ((fl + fr) - (bl + br)) * (bl + br)),
              intensity |-> Intensity(fl + fr + bl + br, DirectionGainQuad2)]
        ELSE IF HasFront
        THEN [source |-> "front",
              raw |-> IF fl + fr = 0 THEN 0 ELSE DivTrunc((fr - fl) * 90, fl + fr),
              intensity |-> Intensity(fl + fr, DirectionGainLr2)]
        ELSE IF HasBack
        THEN [source |-> "back",
              raw |-> WrapDeg(180 - (IF bl + br = 0 THEN 0
                                     ELSE DivTrunc((br - bl) * BackBalanceGainDeg, bl + br))),
              intensity |-> Intensity(bl + br, DirectionGainLr2)]
        ELSE [source |-> LastResort.source, raw |-> LastResort.raw,
              intensity |-> Intensity(LastResort.rms, DirectionGainMono2)]

\* _direction_to_ui: the edge that glows
GlowEdge(direction_deg) ==
    IF -45 <= direction_deg /\ direction_deg <= 45 THEN "top"
    ELSE IF 45 < direction_deg /\ direction_deg < 135 THEN "right"
    ELSE IF -135 < direction_deg /\ direction_deg < -45 THEN "left"
    ELSE "bottom"

\* ------------------------------------------------------------------------
\* Radar tracks: HudServer._update_radar_tracks and _emit_radar_tracks.
\* Frequencies are whole Hz, intensities hundredths, directions whole
\* degrees and times clock steps.  The spectral analysis of the sample
\* rings (the first part of _update_radar_tracks) reads sample values, which
\* radar_buf does not keep: its result, the list of candidates
\* (freq_hz, intensity, raw_dir), is an input of the pass, and it is the
\* empty list whenever the update is skipped or returns early.
\* ------------------------------------------------------------------------
\* RADAR_TRACK_FREQ_TOL_HZ
RadarTrackFreqTolHz == 250
\* RADAR_MAX_DOTS
RadarMaxDots == 3
\* RADAR_TRACK_MIN_INTENSITY in hundredths: a configured floor (the default
\* is 15) low enough for a strong track to live up to the age limit
RadarTrackMinIntensity == 5
\* the age limit of _emit_radar_tracks, 3.0 seconds
MaxTrackAge == 3 * OneSecond
\* exp(-age / tau) in thousandths for tau = 1.2 s and an age in clock steps
DecayTable == <<1000, 659, 435, 287, 189, 125, 82, 54, 36, 23, 15>>
Decay(age) == IF age < Len(DecayTable) THEN DecayTable[age + 1] ELSE 0

\* _ema(prev, obs, alpha) for alpha = 0.25 (frequency) and 0.15 (intensity)
EmaFreq(prev, obs) == prev + DivTrunc(obs - prev, 4)
EmaIntensity(prev, obs) == prev + DivTrunc(15 * (obs - prev), 100)
\* _lerp_angle(a, b, 0.15)
LerpAngleDir(a_deg, b_deg) ==
    WrapDeg(a_deg + DivTrunc(15 * WrapDeg(b_deg - a_deg), 100))

\* list.sort(key=intensity, reverse=True): a stable sort, larger first
RECURSIVE SortByIntensity(_)
SortByIntensity(seq) ==
    IF seq = <<>> THEN <<>>
    ELSE LET rest == SortByIntensity(SubSeq(seq, 1, Len(seq) - 1))
             x == seq[Len(seq)]
             \* x goes behind every element whose key is not smaller
             k == Cardinality({i \in 1..Len(rest) : rest[i].intensity >= x.intensity})
         IN  SubSeq(rest, 1, k) \o <<x>> \o SubSeq(rest, k + 1, Len(rest))

\* the inner loop over the table: the index of the track not yet used whose
\* frequency is nearest, the first of them on a tie; 0 for best_id None
BestTrackAny(tracks, used, freq_hz) ==
    IF tracks = <<>> THEN 0
    ELSE CHOOSE i \in 1..Len(tracks) :
            \A j \in 1..Len(tracks) :
                \/ Abs(tracks[i].freq_hz - freq_hz) < Abs(tracks[j].freq_hz - freq_hz)
                \/ /\ Abs(tracks[i].freq_hz - freq_hz) = Abs(tracks[j].freq_hz - freq_hz)
                   /\ i <= j

BestTrack(tracks, used, freq_hz) ==
    LET unused == {i \in 1..Len(tracks) : tracks[i].track_id \notin used}
    IN  IF unused = {} THEN 0
        ELSE CHOOSE i \in unused :
                \A j \in unused :
                    \/ Abs(tracks[i].freq_hz - freq_hz) < Abs(tracks[j].freq_hz - freq_hz)
                    \/ /\ Abs(tracks[i].freq_hz - freq_hz) = Abs(tracks[j].freq_hz - freq_hz)
                       /\ i <= j

\* best_df > freq_tol
BeyondTolAlways(best_df) == best_df >= 0
BeyondTol(best_df) == best_df > RadarTrackFreqTolHz

\* the id of a new track
NewTrackIdByCount(next_track_id, tracks) == Len(tracks) + 1
NewTrackId(next_track_id, tracks) == next_track_id

\* one pass of the loop over the candidates; st holds the table, the counter,
\* used_tracks and, as history, what became of each candidate
AssociateCandidate(st, cand, t) ==
    LET best == BestTrack(st.tracks, st.used, cand.freq_hz)
        \* history: the frequencies in the table, and those of the tracks
        \* not yet used, when the candidate is handled
        table == {st.tracks[i].freq_hz : i \in 1..Len(st.tracks)}
        free == {st.tracks[i].freq_hz :
                    i \in {j \in 1..Len(st.tracks) : st.tracks[j].track_id \notin st.used}}
    IN  IF best = 0 \/ BeyondTol(Abs(st.tracks[best].freq_hz - cand.freq_hz))
        THEN LET tid == NewTrackId(st.next_track_id, st.tracks)
             IN  [tracks |-> Append(st.tracks,
                                    [track_id |-> tid,
                                     freq_hz |-> cand.freq_hz,
                                     intensity |-> cand.intensity,
                                     torso_direction_deg |-> cand.raw_dir,
                                     last_seen_monotonic |-> t]),
                  next_track_id |-> st.next_track_id + 1,
                  used |-> st.used \cup {tid},
                  assoc |-> Append(st.assoc, [track_id |-> tid, born |-> TRUE,
                                              freq_hz |-> cand.freq_hz,
                                              table |-> table, free |-> free])]
        ELSE LET tr == st.tracks[best]
             IN  [tracks |-> [st.tracks EXCEPT ![best] =
                                [track_id |-> tr.track_id,
                                 freq_hz |-> EmaFreq(tr.freq_hz, cand.freq_hz),
                                 intensity |-> EmaIntensity(tr.intensity, cand.intensity),
                                 torso_direction_deg |->
                                     LerpAngleDir(tr.torso_direction_deg, cand.raw_dir),
                                 last_seen_monotonic |-> t]],
                  next_track_id |-> st.next_track_id,
                  used |-> st.used \cup {tr.track_id},
                  assoc |-> Append(st.assoc, [track_id |-> tr.track_id, born |-> FALSE,
                                              freq_hz |-> cand.freq_hz,
                                              table |-> table, free |-> free])]

RECURSIVE AssociateAll(_, _, _)
AssociateAll(st, cands, t) ==
    IF cands = <<>> THEN st
    ELSE AssociateAll(AssociateCandidate(st, Head(cands), t), Tail(cands), t)

\* the track association of _update_radar_tracks for the candidates found
UpdateRadarTracks(tracks, next_track_id, candidates, t) ==
    LET sorted == SortByIntensity(candidates)
        first == SubSeq(sorted, 1, Min(Len(sorted), Max(1, RadarMaxDots)))
    IN  AssociateAll([tracks |-> tracks, next_track_id |-> next_track_id,
                      used |-> {}, assoc |-> <<>>], first, t)

\* age > 3.0
TrackExpiredLate(age) == age > MaxTrackAge + 1
TrackExpired(age) == age > MaxTrackAge

\* display_i = intensity * decay, in hundred-thousandths
DisplayIntensity(tr, t) == tr.intensity * Decay(t - tr.last_seen_monotonic)

\* a track _emit_radar_tracks pops: too old, or faded below the floor
TrackDies(tr, t) ==
    \/ TrackExpired(t - tr.last_seen_monotonic)
    \/ DisplayIntensity(tr, t) < RadarTrackMinIntensity * 1000

RECURSIVE SelectTracks(_, _)
SelectTracks(tracks, t) ==
    IF tracks = <<>> THEN <<>>
    ELSE IF TrackDies(Head(tracks), t) THEN SelectTracks(Tail(tracks), t)
    ELSE <<Head(tracks)>> \o SelectTracks(Tail(tracks), t)

\* _emit_radar_tracks: the table after the pruning and the dots returned
EmitRadarTracks(tracks, t, delta_yaw_deg) ==
    LET kept == SelectTracks(tracks, t)
        dots == [i \in 1..Len(kept) |->
                    [trackId |-> kept[i].track_id,
                     freqHz |-> kept[i].freq_hz,
                     directionDeg |->
                         WrapDeg(kept[i].torso_direction_deg - delta_yaw_deg),
                     intensity |-> DisplayIntensity(kept[i], t)]]
        sorted == SortByIntensity(dots)
    IN  [tracks |-> kept,
         dots |-> SubSeq(sorted, 1, Min(Len(sorted), Max(1, RadarMaxDots)))]

\* one pass of the loop, up to and including the start of its broadcast;
\* candidates is what the spectral analysis of this pass has found.  The
\* payload keeps the fields of the direction itself: radarDots and the ui
\* placement are left out of it
DirectionPass(candidates) ==
    /\ bc["direction"].pc = "idle"
    /\ DirectionOfTick.source = "" \/ bc["direction"].count < MaxBroadcasts
    /\ LET d == DirectionOfTick
           delta_yaw == HeadToTorsoDeltaYawDeg
           updated == UpdateRadarTracks(radar_tracks, radar_next_track_id, candidates, now)
           emitted == EmitRadarTracks(updated.tracks, now, delta_yaw)
           torso_dir_deg == StabilizeDirection(d.raw)
           direction_deg == WrapDeg(torso_dir_deg - delta_yaw)
           payload == [source |-> d.source,
                       directionDeg |-> direction_deg,
                       rawDirectionDeg |-> d.raw,
                       torsoDirectionDeg |-> torso_dir_deg,
                       deltaYawDeg |-> delta_yaw,
                       intensity |-> d.intensity,
                       glowEdge |-> GlowEdge(direction_deg),
                       tick |-> bc["direction"].count + 1]
       IN  /\ cal_head_yaw0' = CalAfterDeltaYaw[1]
           /\ cal_torso_yaw0' = CalAfterDeltaYaw[2]
           /\ radar_tracks' = emitted.tracks
           /\ radar_next_track_id' = updated.next_track_id
           /\ radar_allocated' =
                radar_allocated \cup {updated.assoc[i].track_id :
                                        i \in {j \in 1..Len(updated.assoc) :
                                                 updated.assoc[j].born}}
           /\ IF d.source = ""
              THEN UNCHANGED <<smoothed_torso_direction_deg, latest_direction_payload, bc>>
              ELSE /\ smoothed_torso_direction_deg' = <<torso_dir_deg>>
                   /\ latest_direction_payload' = <<payload>>
                   /\ StartBroadcast("direction",
                                     [type |-> "direction.ui", tick |-> payload.tick])
           /\ ev' = [op |-> "direction_tick", c |-> 0, arg |-> d.source,
                     key |-> updated.assoc]
    /\ UNCHANGED <<now, frontVars, phoneVars, esp32_gain_left, esp32_gain_right,
                   radar_buf, radar_seen, tuneVars, android_events, evConn, inbox,
                   head_pose, torso_pose>>

\* a pass whose spectral analysis finds nothing
DirectionTick == DirectionPass(<<>>)

\* ------------------------------------------------------------------------
\* The peak picking of _update_radar_tracks.  A spectrum gives, per in-band
\* bin, excess and baseline as whole numbers, baseline above 0.
\* ------------------------------------------------------------------------
\* sep_bins = max(1, int(200.0 / bin_hz)) for bins 100 Hz wide
SepBins == 2
\* score(b) > score(c) for score = excess * sqrt(excess / baseline): the
\* squares excess^3 / baseline are compared
ScoreAbove(sp, b, c) ==
    sp[b].excess * sp[b].excess * sp[b].excess * sp[c].baseline
        > sp[c].excess * sp[c].excess * sp[c].excess * sp[b].baseline
\* b comes before c in idx[np.argsort(score)[::-1]]; bins of equal score
\* come in descending order
ComesBefore(sp, b, c) ==
    ScoreAbove(sp, b, c) \/ (~ScoreAbove(sp, c, b) /\ b > c)
\* candidates: the bins by descending score
PeakCandidates(sp) ==
    [k \in 1..Len(sp) |->
        CHOOSE b \in 1..Len(sp) :
            Cardinality({c \in 1..Len(sp) : c # b /\ ComesBefore(sp, c, b)}) = k - 1]
\* max_excess
MaxExcess(sp) ==
    CHOOSE m \in {sp[b].excess : b \in 1..Len(sp)} :
        \A b \in 1..Len(sp) : sp[b].excess <= m
\* excess[b] < abs_thresh, abs_thresh = max_excess * 0.25
BelowAbsThresh(sp, b) == 4 * sp[b].excess < MaxExcess(sp)
\* excess[b] / baseline[b] < rel_thresh, rel_thresh = 0.7
BelowRelThresh(sp, b) == 10 * sp[b].excess < 7 * sp[b].baseline
\* any(abs(b - p) < sep_bins for p in peaks)
NearPeak(b, peaks) == \E i \in 1..Len(peaks) : Abs(b - peaks[i]) < SepBins

\* the for loop over the candidates from position i on; a bin below one of
\* the two thresholds ends the loop, a bin near a peak is passed over
RECURSIVE PeakWalk(_, _, _, _)
PeakWalk(sp, order, i, peaks) ==
    IF i > Len(order) THEN peaks
    ELSE IF BelowAbsThresh(sp, order[i]) THEN peaks
    ELSE IF BelowRelThresh(sp, order[i]) THEN peaks
    ELSE IF NearPeak(order[i], peaks) THEN PeakWalk(sp, order, i + 1, peaks)
    ELSE IF Len(peaks) + 1 >= Max(1, RadarMaxDots) THEN Append(peaks, order[i])
    ELSE PeakWalk(sp, order, i + 1, Append(peaks, order[i]))

\* peaks; the empty list when max_excess <= 0.0 returns before the loop
PickPeaks(sp) ==
    IF MaxExcess(sp) <= 0 THEN <<>>
    ELSE PeakWalk(sp, PeakCandidates(sp), 1, <<>>)

\* the peak picking applied to a spectrum
RadarPickPeaks(sp) ==
    /\ ev.op = "init"
    /\ ev' = [op |-> "pick_peaks", c |-> 0, arg |-> sp, key |-> PickPeaks(sp)]
    /\ UNCHANGED <<now, frontVars, phoneVars, esp32_gain_left, esp32_gain_right,
                   radar_buf, radar_seen, hudVars>>

\* ------------------------------------------------------------------------
\* The alarm loop: HudServer._yamnet_alarms_loop (and _alarms_loop, which
\* has the same shape for fire and car_horn)
\* ------------------------------------------------------------------------
AlarmClasses == {"fire", "car_horn", "siren"}
\* the order in which one pass of the loop handles the classes
AlarmOrder == <<"fire", "car_horn", "siren">>

\* the hold of a class on the clock of the model
HoldS(k) == IF k = "fire" THEN HoldFire ELSE IF k = "car_horn" THEN HoldHorn ELSE HoldSiren

\* the locals before the first pass: pc is 0 while the loop waits for a frame
\* and the index in AlarmOrder of the class whose edges come next otherwise;
\* now is the clock value the pass has read
AlarmInit ==
    [pc |-> 0,
     now |-> 0,
     active_role |-> "left",
     last_positive |-> [k \in AlarmClasses |-> 0],
     active |-> [k \in AlarmClasses |-> FALSE],
     \* history: a positive detection of the class has happened
     detected |-> [k \in AlarmClasses |-> FALSE]]

\* the phone mic the loop may read from: the latest state, unless it is older
\* than one second; 0 for None
AlarmMic ==
    IF DOMAIN android_mic_by_conn = {} THEN 0
    ELSE IF (now - android_mic_by_conn[LatestMic].last_seen_monotonic) > OneSecond
    THEN 0
    ELSE LatestMic

\* active_role after the stickiness rule: the other side takes over when it
\* is more than 1.5 times as loud
NextActiveRole ==
    IF "left" \in DOMAIN esp32_by_role /\ "right" \in DOMAIN esp32_by_role
    THEN IF /\ alarm.active_role = "left"
            /\ 2 * esp32_by_role["right"].last_rms > 3 * esp32_by_role["left"].last_rms
         THEN "right"
         ELSE IF /\ alarm.active_role = "right"
                 /\ 2 * esp32_by_role["left"].last_rms > 3 * esp32_by_role["right"].last_rms
         THEN "left"
         ELSE alarm.active_role
    ELSE alarm.active_role

OtherRole(role) == IF role = "left" THEN "right" ELSE "left"

HasAnalysisFrame(role) ==
    role \in DOMAIN esp32_by_role /\ Len(esp32_by_role[role].analysis_q) > 0

\* where the pass gets its frame from: the preferred front microphone, the
\* other one, the phone; <<>> when every get times out
AlarmSource ==
    IF HasAnalysisFrame(NextActiveRole) THEN <<"esp", NextActiveRole>>
    ELSE IF HasAnalysisFrame(OtherRole(NextActiveRole))
    THEN <<"esp", OtherRole(NextActiveRole)>>
    ELSE IF AlarmMic # 0 /\ Len(android_mic_by_conn[AlarmMic].analysis_q) > 0
    THEN <<"mic", AlarmMic>>
    ELSE <<>>

\* analysis_q.get() on the source, if there is one
AlarmTakeFrame ==
    /\ esp32_by_role' =
          IF AlarmSource # <<>> /\ AlarmSource[1] = "esp"
          THEN [esp32_by_role EXCEPT ![AlarmSource[2]] = [@ EXCEPT !.analysis_q = Tail(@)]]
          ELSE esp32_by_role
    /\ android_mic_by_conn' =
          IF AlarmSource # <<>> /\ AlarmSource[1] = "mic"
          THEN [android_mic_by_conn EXCEPT ![AlarmSource[2]] =
                    [@ EXCEPT !.analysis_q = Tail(@)]]
          ELSE android_mic_by_conn

\* a pass that goes round again without evaluating: every get timed out
\* (then only the preferred side may change), or the frame taken is empty,
\* the hop has not elapsed or the window is not full yet
AlarmSkip ==
    /\ alarm.pc = 0
    /\ AlarmSource # <<>> \/ NextActiveRole # alarm.active_role
    /\ AlarmTakeFrame
    /\ alarm' = [alarm EXCEPT !.active_role = NextActiveRole]
    /\ ev' = [op |-> "alarm_skip", c |-> 0, arg |-> "", key |-> ""]
    /\ UNCHANGED <<now, espConn, android_stt, sttConn, esp32_gain_left, esp32_gain_right,
                   radar_buf, radar_seen, eventVars, poseVars, dirVars,
                   alarm_active, config, sttVars>>

\* a pass that takes a frame and evaluates the window: the classes in
\* positive are detected
AlarmEval(positive) ==
    /\ alarm.pc = 0
    /\ AlarmSource # <<>>
    /\ AlarmTakeFrame
    /\ alarm' = [alarm EXCEPT
            !.active_role = NextActiveRole,
            !.now = now,
            !.last_positive = [k \in AlarmClasses |-> IF k \in positive THEN now ELSE @[k]],
            !.detected = [k \in AlarmClasses |-> @[k] \/ k \in positive],
            !.pc = 1]
    /\ ev' = [op |-> "alarm_eval", c |-> 0, arg |-> positive, key |-> ""]
    /\ UNCHANGED <<now, espConn, android_stt, sttConn, esp32_gain_left, esp32_gain_right,
                   radar_buf, radar_seen, eventVars, poseVars, dirVars,
                   alarm_active, config, sttVars>>

\* a hold that runs out one clock step early
ShouldBeActiveShort(k) == (alarm.now - alarm.last_positive[k]) + 1 < HoldS(k)

\* the class is active while the pass's clock value is less than the hold
\* after last_positive
ShouldBeActive(k) == (alarm.now - alarm.last_positive[k]) < HoldS(k)

\* an edge test that sends "started" in every pass of an active class
AlarmEventRepeat(k) ==
    IF ShouldBeActive(k) THEN "started"
    ELSE IF alarm.active[k] /\ ~ShouldBeActive(k) THEN "ended"
    ELSE ""

\* the event the pass sends for the class: "started", "ended" or "" for none
AlarmEvent(k) ==
    IF ShouldBeActive(k) /\ ~alarm.active[k] THEN "started"
    ELSE IF alarm.active[k] /\ ~ShouldBeActive(k) THEN "ended"
    ELSE ""

AlarmType(k) ==
    IF k = "fire" THEN "alarm.fire" ELSE IF k = "car_horn" THEN "alarm.car_horn"
    ELSE "alarm.siren"
AlarmMsg(k, state) == [type |-> AlarmType(k), tick |-> 0, state |-> state]

\* the two edge tests of the next class; an event is broadcast before the
\* pass goes on
AlarmEdge ==
    /\ alarm.pc \in 1..Len(AlarmOrder)
    /\ bc["alarm"].pc = "idle"
    /\ LET k == AlarmOrder[alarm.pc]
           state == AlarmEvent(k)
           pc == IF alarm.pc = Len(AlarmOrder) THEN 0 ELSE alarm.pc + 1
       IN  /\ alarm' = [alarm EXCEPT !.pc = pc,
                                     !.active[k] = IF state = "" THEN @ ELSE state = "started"]
           /\ alarm_active' = [alarm_active EXCEPT
                                 ![k] = IF state = "" THEN @ ELSE state = "started"]
           /\ IF state = "" THEN bc' = bc ELSE StartBroadcast("alarm", AlarmMsg(k, state))
           /\ ev' = [op |-> "alarm_edge", c |-> 0, arg |-> state, key |-> k]
    /\ UNCHANGED <<now, frontVars, phoneVars, esp32_gain_left, esp32_gain_right,
                   radar_buf, radar_seen, android_events, evConn, inbox,
                   poseVars, dirVars, config, sttVars>>

\* the clock of a run of the alarm loop
AlarmClock ==
    /\ now < MaxAlarmTime
    /\ now' = now + 1
    /\ ev' = [op |-> "tick", c |-> 0, arg |-> "", key |-> ""]
    /\ UNCHANGED <<frontVars, phoneVars, esp32_gain_left, esp32_gain_right,
                   radar_buf, radar_seen, hudVars>>

\* ------------------------------------------------------------------------
\* The tunables of config.update
\* ------------------------------------------------------------------------
\* the value every numeric tunable starts with, in the unit of the model
ConfigDefault == 1
ConfigInit ==
    [alarm_rms_threshold |-> ConfigDefault,
     fire_ratio_threshold |-> ConfigDefault,
     horn_ratio_threshold |-> ConfigDefault,
     keyword_cooldown_s |-> ConfigDefault,
     yamnet_fire_threshold |-> ConfigDefault,
     yamnet_horn_threshold |-> ConfigDefault,
     yamnet_min_rms |-> ConfigDefault,
     keywords |-> <<>>]

QueueNames == {"stt_q", "analysis_q"}
RoleKeys == {"left", "right", "unknown"}
RingNames == {"fl", "fr", "bl", "br"}

\* ------------------------------------------------------------------------
\* The server after construction; the audio ingress
\* ------------------------------------------------------------------------
\* ------------------------------------------------------------------------
\* /events text messages : the receive loop of _handle_android_events
\* ------------------------------------------------------------------------
\* the JSON value of a message field: a number, null, a string that is not a
\* number, a list; Absent for a key the object does not have
Num(v) == [t |-> "num", v |-> v]
Null == [t |-> "null", v |-> 0]
Str == [t |-> "str", v |-> 0]
List == [t |-> "list", v |-> 0]
Absent == [t |-> "absent", v |-> 0]

\* obj.get(field)
ObjGet(obj, field) ==
    IF field \in DOMAIN obj /\ obj[field].t # "absent" THEN obj[field] ELSE Null

\* float(x) raises for everything but a number
FloatRaises(x) == x.t # "num"

\* an exception leaves the receive loop: the finally block runs and the
\* connection is closed
EvHandlerEnds(c) ==
    /\ evConn' = [evConn EXCEPT ![c] = "done"]
    /\ android_events' = android_events \ {c}

\* {"type": "head_pose", "yaw": .., "pitch": .., "roll": ..}
EvHeadPose(c, m) ==
    /\ evConn[c] \in {"open", "slow"}
    /\ head_pose' =
          IF \/ FloatRaises(ObjGet(m, "yaw"))
             \/ FloatRaises(ObjGet(m, "pitch"))
             \/ FloatRaises(ObjGet(m, "roll"))
          THEN head_pose
          ELSE <<[yaw_deg |-> m.yaw.v, last_seen_monotonic |-> now]>>
    /\ ev' = [op |-> "ev_text", c |-> c, arg |-> "head_pose", key |-> "ok"]
    /\ UNCHANGED <<now, frontVars, phoneVars, esp32_gain_left, esp32_gain_right,
                   radar_buf, radar_seen, eventVars, torso_pose, cal_head_yaw0,
                   cal_torso_yaw0, dirVars, tuneVars>>

\* obj.get("yawDeg", obj.get("yaw"))
TorsoYawField(m) ==
    IF "yawDeg" \in DOMAIN m /\ m.yawDeg.t # "absent" THEN m.yawDeg
    ELSE ObjGet(m, "yaw")

\* {"type": "torso_pose", "yawDeg": ..} or {"type": "torso_pose", "yaw": ..}
EvTorsoPose(c, m) ==
    /\ evConn[c] \in {"open", "slow"}
    /\ torso_pose' =
          IF FloatRaises(TorsoYawField(m))
          THEN torso_pose
          ELSE <<[yaw_deg |-> TorsoYawField(m).v, last_seen_monotonic |-> now]>>
    /\ ev' = [op |-> "ev_text", c |-> c, arg |-> "torso_pose", key |-> "ok"]
    /\ UNCHANGED <<now, frontVars, phoneVars, esp32_gain_left, esp32_gain_right,
                   radar_buf, radar_seen, eventVars, head_pose, cal_head_yaw0,
                   cal_torso_yaw0, dirVars, tuneVars>>

\* a calibration that forgets the zero of a pose that is not fresh
CalAfterPoseZeroReset ==
    << IF FreshPose(head_pose) # <<>> THEN <<head_pose[1].yaw_deg>> ELSE <<>>,
       IF FreshPose(torso_pose) # <<>> THEN <<torso_pose[1].yaw_deg>> ELSE <<>> >>

\* the zeros after calibrate.pose_zero, as <<head zero, torso zero>>: a fresh
\* pose gives its yaw, the zero of any other pose stays
CalAfterPoseZero ==
    << IF FreshPose(head_pose) # <<>> THEN <<head_pose[1].yaw_deg>> ELSE cal_head_yaw0,
       IF FreshPose(torso_pose) # <<>> THEN <<torso_pose[1].yaw_deg>> ELSE cal_torso_yaw0 >>

\* the reply to calibrate.pose_zero
PoseZeroMsg(head0, torso0) ==
    [type |-> "calibrate.pose_zero", tick |-> 0,
     head0YawDeg |-> head0, torso0YawDeg |-> torso0]

\* {"type": "calibrate.pose_zero"}: the zeros are stored and sent back on the
\* connection
EvCalibrate(c) ==
    /\ evConn[c] = "open"
    /\ cal_head_yaw0' = CalAfterPoseZero[1]
    /\ cal_torso_yaw0' = CalAfterPoseZero[2]
    /\ inbox' = [inbox EXCEPT ![c] =
                    Append(@, PoseZeroMsg(CalAfterPoseZero[1], CalAfterPoseZero[2]))]
    /\ ev' = [op |-> "ev_text", c |-> c, arg |-> "calibrate.pose_zero", key |-> "ok"]
    /\ UNCHANGED <<now, frontVars, phoneVars, esp32_gain_left, esp32_gain_right,
                   radar_buf, radar_seen, android_events, evConn, bc, head_pose,
                   torso_pose, dirVars, tuneVars>>

\* the statements of the config.update branch in their order: "get" is
\* float(obj.get(field, current)), "opt" is the assignment under
\* "if obj.get(field) is not None", "clamp" is the max(0.0, gain) pair and
\* "list" the keywords
ConfigSteps ==
    << [kind |-> "get", field |-> "alarmRmsThreshold", key |-> "alarm_rms_threshold"],
       [kind |-> "get", field |-> "fireRatioThreshold", key |-> "fire_ratio_threshold"],
       [kind |-> "get", field |-> "hornRatioThreshold", key |-> "horn_ratio_threshold"],
       [kind |-> "get", field |-> "keywordCooldownS", key |-> "keyword_cooldown_s"],
       [kind |-> "opt", field |-> "esp32GainLeft", key |-> "esp32_gain_left"],
       [kind |-> "opt", field |-> "esp32GainRight", key |-> "esp32_gain_right"],
       [kind |-> "clamp", field |-> "", key |-> ""],
       [kind |-> "opt", field |-> "yamnetFireThreshold", key |-> "yamnet_fire_threshold"],
       [kind |-> "opt", field |-> "yamnetHornThreshold", key |-> "yamnet_horn_threshold"],
       [kind |-> "opt", field |-> "yamnetMinRms", key |-> "yamnet_min_rms"],
       [kind |-> "list", field |-> "keywords", key |-> "keywords"] >>

\* the tunables before a config.update, with the flag of a raised exception
ConfigState ==
    [alarm_rms_threshold |-> config.alarm_rms_threshold,
     fire_ratio_threshold |-> config.fire_ratio_threshold,
     horn_ratio_threshold |-> config.horn_ratio_threshold,
     keyword_cooldown_s |-> config.keyword_cooldown_s,
     yamnet_fire_threshold |-> config.yamnet_fire_threshold,
     yamnet_horn_threshold |-> config.yamnet_horn_threshold,
     yamnet_min_rms |-> config.yamnet_min_rms,
     keywords |-> config.keywords,
     esp32_gain_left |-> esp32_gain_left,
     esp32_gain_right |-> esp32_gain_right,
     raised |-> FALSE]

\* after an exception no further statement runs
ConfigClamp(st) ==
    IF st.raised THEN st
    ELSE [st EXCEPT !.esp32_gain_left = Max(0, @), !.esp32_gain_right = Max(0, @)]

\* one statement of the branch
ConfigStep(st, obj, s) ==
    IF s.kind = "clamp" THEN ConfigClamp(st)
    ELSE IF st.raised THEN st
    ELSE IF s.kind = "get"
    THEN IF s.field \notin DOMAIN obj \/ obj[s.field].t = "absent" THEN st
         ELSE IF FloatRaises(obj[s.field]) THEN [st EXCEPT !.raised = TRUE]
         ELSE [st EXCEPT ![s.key] = obj[s.field].v]
    ELSE IF s.kind = "opt"
    THEN IF ObjGet(obj, s.field).t = "null" THEN st
         ELSE IF FloatRaises(obj[s.field]) THEN [st EXCEPT !.raised = TRUE]
         ELSE [st EXCEPT ![s.key] = obj[s.field].v]
    ELSE IF ObjGet(obj, s.field).t = "list"
         THEN [st EXCEPT !.keywords = <<"kw">>]
         ELSE st

RECURSIVE ConfigRun(_, _, _)
ConfigRun(st, obj, i) ==
    IF i > Len(ConfigSteps) THEN st
    ELSE ConfigRun(ConfigStep(st, obj, ConfigSteps[i]), obj, i + 1)

\* {"type": "config.update", ...}: the statements run until one raises
EvConfigUpdate(c, obj) ==
    /\ evConn[c] \in {"open", "slow"}
    /\ \E st \in {ConfigRun(ConfigState, obj, 1)} :
           /\ config' = [alarm_rms_threshold |-> st.alarm_rms_threshold,
                         fire_ratio_threshold |-> st.fire_ratio_threshold,
                         horn_ratio_threshold |-> st.horn_ratio_threshold,
                         keyword_cooldown_s |-> st.keyword_cooldown_s,
                         yamnet_fire_threshold |-> st.yamnet_fire_threshold,
                         yamnet_horn_threshold |-> st.yamnet_horn_threshold,
                         yamnet_min_rms |-> st.yamnet_min_rms,
                         keywords |-> st.keywords]
           /\ esp32_gain_left' = st.esp32_gain_left
           /\ esp32_gain_right' = st.esp32_gain_right
           /\ IF st.raised
              THEN EvHandlerEnds(c)
              ELSE UNCHANGED <<evConn, android_events>>
           /\ ev' = [op |-> "ev_text", c |-> c, arg |-> "config.update", key |-> obj]
    /\ UNCHANGED <<now, frontVars, phoneVars, radar_buf, radar_seen, inbox, bc,
                   poseVars, dirVars, alarm, alarm_active, sttVars>>

\* a text that is JSON but no object (a list, a number, a string, null):
\* obj.get raises
EvNonObject(c) ==
    /\ evConn[c] \in {"open", "slow"}
    /\ EvHandlerEnds(c)
    /\ ev' = [op |-> "ev_text", c |-> c, arg |-> "nonobject", key |-> "raised"]
    /\ UNCHANGED <<now, frontVars, phoneVars, esp32_gain_left, esp32_gain_right,
                   radar_buf, radar_seen, inbox, bc, poseVars, dirVars, tuneVars>>

\* a binary message, a text that is not JSON, an object of an unknown type, a
\* hello with a field that int() rejects: the loop goes on
EvIgnoredKinds == {"binary", "nonjson", "other", "hello"}

EvIgnored(c, kind) ==
    /\ evConn[c] \in {"open", "slow"}
    /\ ev' = [op |-> "ev_text", c |-> c, arg |-> kind, key |-> "ok"]
    /\ UNCHANGED <<now, frontVars, phoneVars, esp32_gain_left, esp32_gain_right,
                   radar_buf, radar_seen, hudVars>>

\* ------------------------------------------------------------------------
\* /stt text messages that raise: a JSON value that is no object, an "audio"
\* that is no object, a sampleRateHz, channels or frameMs that int() rejects
\* ------------------------------------------------------------------------
SttRaisingKinds == {"nonobject", "audio", "sampleRateHz", "channels", "frameMs"}

SttTextRaises(c, kind) ==
    /\ sttConn[c].pc = "open"
    /\ sttConn' = [sttConn EXCEPT ![c] = [@ EXCEPT !.pc = "done"]]
    /\ android_stt' = android_stt \ {c}
    /\ android_mic_by_conn' = DictPop(android_mic_by_conn, c)
    /\ ev' = [op |-> "stt_text", c |-> c,
              arg |-> [kind |-> kind, deviceId |-> "", format |-> "",
                       sampleRateHz |-> 0, channels |-> 0],
              key |-> "raised"]
    /\ UNCHANGED <<hudVars, now, frontVars, esp32_gain_left, esp32_gain_right,
                   radar_buf, radar_seen>>

\* ------------------------------------------------------------------------
\* _stt_loop : audio_frames(), the generator that picks the frames sent to
\* the speech-to-text service
\* ------------------------------------------------------------------------
\* pc "top": at the head of the while loop (or in one of its short sleeps)
\* pc "wait_esp": in wait_for(state.stt_q.get(), 0.25) of the front state that
\*    connection conn installed for role
\* pc "wait_mic": in wait_for(mic.stt_q.get(), 0.25) of the state of /stt
\*    connection conn
\* source and active_role are the locals of the generator
MuxInit == [pc |-> "top", source |-> "auto", active_role |-> "left", role |-> "", conn |-> 0]

\* an active role that follows the registered role when its own is missing
StickyRoleFollows(active_role) ==
    IF "left" \in DOMAIN esp32_by_role /\ "right" \in DOMAIN esp32_by_role
    THEN LET l == esp32_by_role["left"].last_rms
             r == esp32_by_role["right"].last_rms
         IN  IF active_role = "left" /\ 2 * r > 3 * l THEN "right"
             ELSE IF active_role = "right" /\ 2 * l > 3 * r THEN "left"
             ELSE active_role
    ELSE IF "right" \in DOMAIN esp32_by_role THEN "right"
    ELSE IF "left" \in DOMAIN esp32_by_role THEN "left"
    ELSE active_role

\* the stickiness of the active role: it changes when both roles are
\* registered and the other one is more than 1.5 times louder
StickyRole(active_role) ==
    IF "left" \in DOMAIN esp32_by_role /\ "right" \in DOMAIN esp32_by_role
    THEN LET l == esp32_by_role["left"].last_rms
             r == esp32_by_role["right"].last_rms
         IN  IF active_role = "left" /\ 2 * r > 3 * l THEN "right"
             ELSE IF active_role = "right" /\ 2 * l > 3 * r THEN "left"
             ELSE active_role
    ELSE active_role

\* state = preferred or fallback : the role whose state is taken, "" for None
MuxEspRole(active_role) ==
    IF active_role \in DOMAIN esp32_by_role THEN active_role
    ELSE IF OtherRole(active_role) \in DOMAIN esp32_by_role THEN OtherRole(active_role)
    ELSE ""

\* max(self._android_mic_by_conn.values(), key=last_seen_monotonic): the first
\* of the latest seen states in the order of the dict
MuxMicConn ==
    CHOOSE c \in DOMAIN android_mic_by_conn :
        \A d \in DOMAIN android_mic_by_conn :
            \/ android_mic_by_conn[d].last_seen_monotonic
                  < android_mic_by_conn[c].last_seen_monotonic
            \/ /\ android_mic_by_conn[d].last_seen_monotonic
                     = android_mic_by_conn[c].last_seen_monotonic
               /\ android_mic_by_conn[c].ord <= android_mic_by_conn[d].ord

MuxTop(active_role) == [MuxInit EXCEPT !.active_role = active_role]

\* part 2 of the loop body, the phone microphone, with the locals source and
\* active_role: a queued frame is yielded at once, an empty queue is waited on
MuxMicSection(source, active_role) ==
    IF source \in {"auto", "android_mic"} /\ DOMAIN android_mic_by_conn # {}
    THEN LET c == MuxMicConn
             q == android_mic_by_conn[c].stt_q
         IN  IF Len(q) > 0
             THEN /\ android_mic_by_conn' =
                        [android_mic_by_conn EXCEPT ![c] = [@ EXCEPT !.stt_q = Tail(q)]]
                  /\ mux' = MuxTop(active_role)
                  /\ ev' = [op |-> "mux_yield", c |-> c, arg |-> Head(q), key |-> source]
             ELSE /\ mux' = [pc |-> "wait_mic", source |-> source,
                             active_role |-> active_role, role |-> "", conn |-> c]
                  /\ ev' = [op |-> "mux_wait", c |-> c, arg |-> "stt", key |-> source]
                  /\ UNCHANGED android_mic_by_conn
    ELSE /\ mux' = MuxTop(active_role)
         /\ ev' = [op |-> "mux_sleep", c |-> 0, arg |-> "", key |-> source]
         /\ UNCHANGED android_mic_by_conn

\* one pass of the loop body up to its first await that has to wait
MuxPass ==
    /\ mux.pc = "top"
    /\ LET source == stt_audio_source
           active_role == IF source \in {"auto", "esp32"}
                          THEN StickyRole(mux.active_role) ELSE mux.active_role
           role == IF source \in {"auto", "esp32"} THEN MuxEspRole(active_role) ELSE ""
       IN  IF role # ""
           THEN LET q == esp32_by_role[role].stt_q
                IN  /\ IF Len(q) > 0
                       THEN /\ esp32_by_role' =
                                  [esp32_by_role EXCEPT ![role] = [@ EXCEPT !.stt_q = Tail(q)]]
                            /\ mux' = MuxTop(active_role)
                            /\ ev' = [op |-> "mux_yield", c |-> 0, arg |-> Head(q),
                                      key |-> source]
                       ELSE /\ mux' = [pc |-> "wait_esp", source |-> source,
                                       active_role |-> active_role, role |-> role,
                                       conn |-> esp32_by_role[role].conn]
                            /\ ev' = [op |-> "mux_wait", c |-> 0, arg |-> "esp",
                                      key |-> source]
                            /\ UNCHANGED esp32_by_role
                    /\ UNCHANGED android_mic_by_conn
           ELSE IF source = "esp32"
           THEN /\ mux' = MuxTop(active_role)
                /\ ev' = [op |-> "mux_sleep", c |-> 0, arg |-> "", key |-> source]
                /\ UNCHANGED <<esp32_by_role, android_mic_by_conn>>
           ELSE /\ MuxMicSection(source, active_role)
                /\ UNCHANGED esp32_by_role
    /\ UNCHANGED <<now, espConn, esp32_gain_left, esp32_gain_right, android_stt, sttConn,
                   radar_buf, radar_seen, eventVars, poseVars, dirVars,
                   alarm, alarm_active, config, stt_audio_source, last_partial_words,
                   keyword_last_hit, stt_msg, stt_client>>

\* the front state the generator waits on is still the registered one
MuxEspWaited ==
    /\ mux.role \in DOMAIN esp32_by_role
    /\ esp32_by_role[mux.role].conn = mux.conn

\* a frame arrives in the queue the generator waits on: it is yielded
MuxArriveEsp ==
    /\ mux.pc = "wait_esp"
    /\ MuxEspWaited
    /\ Len(esp32_by_role[mux.role].stt_q) > 0
    /\ esp32_by_role' = [esp32_by_role EXCEPT ![mux.role] = [@ EXCEPT !.stt_q = Tail(@)]]
    /\ mux' = MuxTop(mux.active_role)
    /\ ev' = [op |-> "mux_yield", c |-> 0, arg |-> Head(esp32_by_role[mux.role].stt_q),
              key |-> mux.source]
    /\ UNCHANGED <<now, espConn, esp32_gain_left, esp32_gain_right, phoneVars,
                   radar_buf, radar_seen, eventVars, poseVars, dirVars,
                   alarm, alarm_active, config, stt_audio_source, last_partial_words,
                   keyword_last_hit, stt_msg, stt_client>>

\* 0.25 s without a frame: with "esp32" the loop starts over, otherwise it
\* goes on to the phone microphone
MuxTimeoutEsp ==
    /\ mux.pc = "wait_esp"
    /\ ~(MuxEspWaited /\ Len(esp32_by_role[mux.role].stt_q) > 0)
    /\ IF mux.source = "esp32"
       THEN /\ mux' = MuxTop(mux.active_role)
            /\ ev' = [op |-> "mux_timeout", c |-> 0, arg |-> "esp", key |-> mux.source]
            /\ UNCHANGED android_mic_by_conn
       ELSE MuxMicSection(mux.source, mux.active_role)
    /\ UNCHANGED <<now, frontVars, esp32_gain_left, esp32_gain_right, android_stt, sttConn,
                   radar_buf, radar_seen, eventVars, poseVars, dirVars,
                   alarm, alarm_active, config, stt_audio_source, last_partial_words,
                   keyword_last_hit, stt_msg, stt_client>>

\* a frame arrives in the phone-mic queue the generator waits on
MuxArriveMic ==
    /\ mux.pc = "wait_mic"
    /\ mux.conn \in DOMAIN android_mic_by_conn
    /\ Len(android_mic_by_conn[mux.conn].stt_q) > 0
    /\ android_mic_by_conn' =
            [android_mic_by_conn EXCEPT ![mux.conn] = [@ EXCEPT !.stt_q = Tail(@)]]
    /\ mux' = MuxTop(mux.active_role)
    /\ ev' = [op |-> "mux_yield", c |-> mux.conn,
              arg |-> Head(android_mic_by_conn[mux.conn].stt_q), key |-> mux.source]
    /\ UNCHANGED <<now, frontVars, esp32_gain_left, esp32_gain_right, android_stt, sttConn,
                   radar_buf, radar_seen, eventVars, poseVars, dirVars,
                   alarm, alarm_active, config, stt_audio_source, last_partial_words,
                   keyword_last_hit, stt_msg, stt_client>>

\* 0.25 s without a phone-mic frame: the loop starts over
MuxTimeoutMic ==
    /\ mux.pc = "wait_mic"
    /\ ~(mux.conn \in DOMAIN android_mic_by_conn
          /\ Len(android_mic_by_conn[mux.conn].stt_q) > 0)
    /\ mux' = MuxTop(mux.active_role)
    /\ ev' = [op |-> "mux_timeout", c |-> mux.conn, arg |-> "stt", key |-> mux.source]
    /\ UNCHANGED <<now, frontVars, phoneVars, esp32_gain_left, esp32_gain_right,
                   radar_buf, radar_seen, eventVars, poseVars, dirVars,
                   alarm, alarm_active, config, stt_audio_source, last_partial_words,
                   keyword_last_hit, stt_msg, stt_client>>

\* str(obj.get("source") or "").strip().lower() on the texts of AudioSources
StripLower(source) ==
    IF source = " ESP32 " THEN "esp32"
    ELSE IF source = "Auto" THEN "auto"
    ELSE source

\* the source a message selects, as it is stored
StoredSource(source) == IF source = "android" THEN "android_mic" ELSE source

\* {"type": "audio.source", "source": source} on /events
EvAudioSource(c, source) ==
    /\ evConn[c] \in {"open", "slow"}
    /\ stt_audio_source' =
            IF StripLower(source) \in {"auto", "android", "android_mic", "esp32"}
            THEN StoredSource(StripLower(source))
            ELSE stt_audio_source
    /\ ev' = [op |-> "ev_text", c |-> c, arg |-> "audio.source", key |-> source]
    /\ UNCHANGED <<now, frontVars, phoneVars, esp32_gain_left, esp32_gain_right,
                   radar_buf, radar_seen, eventVars, poseVars, dirVars,
                   alarm, alarm_active, config, mux, last_partial_words,
                   keyword_last_hit, stt_msg, stt_client>>

\* ------------------------------------------------------------------------
\* _stt_loop : compute_delta_words, on_stt_message and _check_keywords
\* ------------------------------------------------------------------------
\* a transcript text is a sequence of tokens, a word or a run of white space
\* " "; the words are lower case and none contains another
\* current_text.strip().split()
SplitWords(text) == SelectSeq(text, LAMBDA tok : tok # " ")

\* words[:n]
Take(words, n) == SubSeq(words, 1, Min(n, Len(words)))

\* the most words one partial transcript reports as new
DeltaWordsCap == 8

\* a compute_delta_words that reports every new word
ComputeDeltaWordsUncapped(last, words) ==
    IF last = <<>>
    THEN [delta |-> words, last |-> words]
    ELSE IF Len(words) >= Len(last) /\ SubSeq(words, 1, Len(last)) = last
    THEN [delta |-> SubSeq(words, Len(last) + 1, Len(words)), last |-> words]
    ELSE [delta |-> <<>>, last |-> words]

\* compute_delta_words: the words reported and the new last_partial_words
ComputeDeltaWords(last, words) ==
    IF last = <<>>
    THEN [delta |-> Take(words, DeltaWordsCap), last |-> words]
    ELSE IF Len(words) >= Len(last) /\ SubSeq(words, 1, Len(last)) = last
    THEN [delta |-> Take(SubSeq(words, Len(last) + 1, Len(words)), DeltaWordsCap),
          last |-> words]
    ELSE [delta |-> <<>>, last |-> words]

\* pc "idle": the receiver waits for the next message of the service
\* pc "stt_send": in  await self._broadcast_stt(...)  of a transcript
\* pc "kw_send": in  await self._broadcast_events(...)  of _check_keywords
\* kind, words: the transcript in hand; t, kws, i: now, the list iterated and
\* the index of the next keyword in _check_keywords
\* history: sent = for every keyword the clock at its last alert.keyword
SttMsgInit ==
    [pc |-> "idle", kind |-> "", words |-> <<>>, t |-> 0, kws |-> <<>>, i |-> 0,
     sent |-> EmptyDict]

SttMsgIdle == [SttMsgInit EXCEPT !.sent = stt_msg.sent]

KeywordMsg(kw) == [type |-> "alert.keyword", tick |-> 0, keyword |-> kw]

\* self._keyword_last_hit.get(kw, 0.0)
LastHit(last, kw) == IF kw \in DOMAIN last THEN last[kw] ELSE 0

\* kw in normalized, for words none of which contains another
KeywordIn(kw, words) == \E j \in 1..Len(words) : words[j] = kw

\* the for loop of _check_keywords from keyword i on, up to the first
\* broadcast that has clients to send to: the keyword it is for ("" when the
\* loop ends without one), the index to go on with and the new table
RECURSIVE KwScan(_, _, _, _, _)
KwScan(kws, i, words, t, last) ==
    IF i > Len(kws) THEN [i |-> i, last |-> last, hit |-> ""]
    ELSE IF ~KeywordIn(kws[i], words)
            \/ t - LastHit(last, kws[i]) < config.keyword_cooldown_s
    THEN KwScan(kws, i + 1, words, t, last)
    ELSE IF android_events = {}
    THEN KwScan(kws, i + 1, words, t, DictSet(last, kws[i], t))
    ELSE [i |-> i + 1, last |-> DictSet(last, kws[i], t), hit |-> kws[i]]

\* _check_keywords from keyword i on with the locals of the call
KwRun(kws, i, words, t) ==
    \E r \in {KwScan(kws, i, words, t, keyword_last_hit)} :
        /\ keyword_last_hit' = r.last
        /\ IF r.hit = ""
           THEN /\ stt_msg' = SttMsgIdle
                /\ bc' = bc
           ELSE /\ stt_msg' = [pc |-> "kw_send", kind |-> "", words |-> words, t |-> t,
                               kws |-> kws, i |-> r.i,
                               sent |-> DictSet(stt_msg.sent, r.hit, now)]
                /\ StartBroadcast("keyword", KeywordMsg(r.hit))

\* _check_keywords(text): nothing happens without keywords or words
KwBegin(words) ==
    IF config.keywords = <<>> \/ words = <<>>
    THEN /\ stt_msg' = SttMsgIdle
         /\ UNCHANGED <<keyword_last_hit, bc, stt_client>>
    ELSE KwRun(config.keywords, 1, words, now)

\* a partial_transcript arrives: the delta is computed, the transcript goes
\* to the /stt clients and the keywords are checked
SttPartial(text) ==
    /\ stt_msg.pc = "idle"
    /\ LET words == SplitWords(text)
           r == ComputeDeltaWords(last_partial_words, words)
       IN  /\ last_partial_words' = r.last
           /\ ev' = [op |-> "stt_partial", c |-> 0, arg |-> r.delta, key |-> words]
           /\ IF android_stt = {}
              THEN KwBegin(words)
              ELSE /\ stt_msg' = [SttMsgIdle EXCEPT !.pc = "stt_send",
                                      !.kind = "partial", !.words = words]
                   /\ UNCHANGED <<keyword_last_hit, bc, stt_client>>
    /\ UNCHANGED <<now, frontVars, phoneVars, esp32_gain_left, esp32_gain_right,
                   radar_buf, radar_seen, android_events, evConn, inbox,
                   poseVars, dirVars, alarm, alarm_active, config, stt_audio_source, mux, stt_client>>

\* a committed_transcript arrives: it goes to the /stt clients, the partial
\* words are forgotten and the keywords are checked
SttFinal(text) ==
    /\ stt_msg.pc = "idle"
    /\ LET words == SplitWords(text)
       IN  /\ ev' = [op |-> "stt_final", c |-> 0,
                     arg |-> IF android_stt = {} THEN "done" ELSE "sending",
                     key |-> words]
           /\ IF android_stt = {}
              THEN /\ last_partial_words' = <<>>
                   /\ KwBegin(words)
              ELSE /\ stt_msg' = [SttMsgIdle EXCEPT !.pc = "stt_send",
                                      !.kind = "final", !.words = words]
                   /\ UNCHANGED <<last_partial_words, keyword_last_hit, bc, stt_client>>
    /\ UNCHANGED <<now, frontVars, phoneVars, esp32_gain_left, esp32_gain_right,
                   radar_buf, radar_seen, android_events, evConn, inbox,
                   poseVars, dirVars, alarm, alarm_active, config, stt_audio_source, mux, stt_client>>

\* _broadcast_stt returns (the sends to the /stt clients are not kept)
SttSent ==
    /\ stt_msg.pc = "stt_send"
    /\ last_partial_words' = IF stt_msg.kind = "final" THEN <<>> ELSE last_partial_words
    /\ KwBegin(stt_msg.words)
    /\ ev' = [op |-> "stt_sent", c |-> 0, arg |-> stt_msg.kind, key |-> stt_msg.words]
    /\ UNCHANGED <<now, frontVars, phoneVars, esp32_gain_left, esp32_gain_right,
                   radar_buf, radar_seen, android_events, evConn, inbox,
                   poseVars, dirVars, alarm, alarm_active, config, stt_audio_source, mux, stt_client>>

\* the broadcast of an alert.keyword returns: the for loop goes on
KwResume ==
    /\ stt_msg.pc = "kw_send"
    /\ bc["keyword"].pc = "idle"
    /\ KwRun(stt_msg.kws, stt_msg.i, stt_msg.words, stt_msg.t)
    /\ ev' = [op |-> "kw_resume", c |-> 0, arg |-> "", key |-> ""]
    /\ UNCHANGED <<now, frontVars, phoneVars, esp32_gain_left, esp32_gain_right,
                   radar_buf, radar_seen, android_events, evConn, inbox,
                   poseVars, dirVars, alarm, alarm_active, config, stt_audio_source, mux,
                   last_partial_words, stt_client>>

\* the keywords of a config.update: strings are normalized, empty ones left out
CleanKeywords(kws) == SelectSeq(kws, LAMBDA k : k # "")

\* ------------------------------------------------------------------------
\* The STT client: ElevenLabsRealtimeStt.run and _run_once, and the one
\* audio_frames() generator object _stt_loop hands to run.  Sessions are
\* numbered in the order they start.  The generator is seen from outside:
\* gen is the session whose sender is inside its __anext__ (0 when it rests
\* at a yield or has not started), frames the frames waiting in the source
\* queues it reads.
\* ------------------------------------------------------------------------
MaxSessions == 3
MaxClientFrames == 2
Sessions == 1..MaxSessions

\* pc: "connect" before websockets.connect, "session" inside the gather,
\* "sleep" in the reconnect delay.  sender[s]: "none" (not created), "next"
\* (about to call __anext__), "anext" (inside __anext__), "send" (in
\* ws.send with a frame), "done" (ended)
SttClientInit ==
    [pc |-> "connect",
     session |-> 0,
     sender |-> [s \in Sessions |-> "none"],
     gen |-> 0,
     frames |-> 0]

\* the websocket of session s is open: the session is inside its async with
WsOpen(s) == stt_client.pc = "session" /\ stt_client.session = s

\* the senders that have not ended
LiveSenders == {s \in Sessions : stt_client.sender[s] \in {"next", "anext", "send"}}

\* a frame reaches a source queue
ClientFrameArrives ==
    /\ stt_client.frames < MaxClientFrames
    /\ stt_client' = [stt_client EXCEPT !.frames = @ + 1]
    /\ ev' = [op |-> "client_frame", c |-> 0, arg |-> "", key |-> ""]
    /\ UNCHANGED <<now, frontVars, phoneVars, esp32_gain_left, esp32_gain_right,
                   radar_buf, radar_seen, eventVars, poseVars, dirVars,
                   alarm, alarm_active, config, stt_audio_source, mux,
                   last_partial_words, keyword_last_hit, stt_msg>>

\* _run_once connects and awaits gather(sender(), receiver()): the session's
\* sender and receiver tasks start
ClientConnect ==
    /\ stt_client.pc = "connect"
    /\ stt_client.session < MaxSessions
    /\ stt_client' = [stt_client EXCEPT
            !.pc = "session",
            !.session = @ + 1,
            !.sender[stt_client.session + 1] = "next"]
    /\ ev' = [op |-> "client_connect", c |-> stt_client.session + 1, arg |-> "", key |-> ""]
    /\ UNCHANGED <<now, frontVars, phoneVars, esp32_gain_left, esp32_gain_right,
                   radar_buf, radar_seen, eventVars, poseVars, dirVars,
                   alarm, alarm_active, config, stt_audio_source, mux,
                   last_partial_words, keyword_last_hit, stt_msg>>

\* the receiver raises (the connection is lost with an error, or on_message
\* raises): gather hands the exception on without cancelling the sender,
\* the async with closes the websocket, run logs it and sleeps
ReceiverRaises ==
    /\ stt_client.pc = "session"
    /\ stt_client' = [stt_client EXCEPT !.pc = "sleep"]
    /\ ev' = [op |-> "receiver_raises", c |-> stt_client.session, arg |-> "", key |-> ""]
    /\ UNCHANGED <<now, frontVars, phoneVars, esp32_gain_left, esp32_gain_right,
                   radar_buf, radar_seen, eventVars, poseVars, dirVars,
                   alarm, alarm_active, config, stt_audio_source, mux,
                   last_partial_words, keyword_last_hit, stt_msg>>

\* asyncio.sleep(reconnect_delay_s) is over: the while loop of run goes round
ClientSleepDone ==
    /\ stt_client.pc = "sleep"
    /\ stt_client' = [stt_client EXCEPT !.pc = "connect"]
    /\ ev' = [op |-> "client_retry", c |-> stt_client.session, arg |-> "", key |-> ""]
    /\ UNCHANGED <<now, frontVars, phoneVars, esp32_gain_left, esp32_gain_right,
                   radar_buf, radar_seen, eventVars, poseVars, dirVars,
                   alarm, alarm_active, config, stt_audio_source, mux,
                   last_partial_words, keyword_last_hit, stt_msg>>

\* the sender of session s enters  async for frame in audio_frames : a
\* generator that is inside another __anext__ raises RuntimeError, which
\* ends the sender and, through gather, its session when that is still on
SenderNext(s) ==
    /\ stt_client.sender[s] = "next"
    /\ IF stt_client.gen # 0
       THEN /\ stt_client' = [stt_client EXCEPT
                    !.sender[s] = "done",
                    !.pc = IF WsOpen(s) THEN "sleep" ELSE @]
            /\ ev' = [op |-> "sender_next", c |-> s, arg |-> "busy", key |-> ""]
       ELSE /\ stt_client' = [stt_client EXCEPT !.sender[s] = "anext", !.gen = s]
            /\ ev' = [op |-> "sender_next", c |-> s, arg |-> "entered", key |-> ""]
    /\ UNCHANGED <<now, frontVars, phoneVars, esp32_gain_left, esp32_gain_right,
                   radar_buf, radar_seen, eventVars, poseVars, dirVars,
                   alarm, alarm_active, config, stt_audio_source, mux,
                   last_partial_words, keyword_last_hit, stt_msg>>

\* the generator takes a frame from a source queue and yields it to the
\* sender that is inside __anext__
GenYield(s) ==
    /\ stt_client.gen = s
    /\ stt_client.sender[s] = "anext"
    /\ stt_client.frames > 0
    /\ stt_client' = [stt_client EXCEPT !.sender[s] = "send", !.gen = 0, !.frames = @ - 1]
    /\ ev' = [op |-> "gen_yield", c |-> s, arg |-> "", key |-> WsOpen(s)]
    /\ UNCHANGED <<now, frontVars, phoneVars, esp32_gain_left, esp32_gain_right,
                   radar_buf, radar_seen, eventVars, poseVars, dirVars,
                   alarm, alarm_active, config, stt_audio_source, mux,
                   last_partial_words, keyword_last_hit, stt_msg>>

\* await ws.send(...) of the sender of session s: it goes round while the
\* websocket is open and raises ConnectionClosed, ending the sender and its
\* frame, once the websocket is closed
SenderSend(s) ==
    /\ stt_client.sender[s] = "send"
    /\ stt_client' = [stt_client EXCEPT !.sender[s] = IF WsOpen(s) THEN "next" ELSE "done"]
    /\ ev' = [op |-> "sender_send", c |-> s, arg |-> "", key |-> WsOpen(s)]
    /\ UNCHANGED <<now, frontVars, phoneVars, esp32_gain_left, esp32_gain_right,
                   radar_buf, radar_seen, eventVars, poseVars, dirVars,
                   alarm, alarm_active, config, stt_audio_source, mux,
                   last_partial_words, keyword_last_hit, stt_msg>>

\* a config.update with a numeric keywordCooldownS and a list of strings as
\* keywords
EvConfigKeywords(c, cooldown, kws) ==
    /\ evConn[c] \in {"open", "slow"}
    /\ config' = [config EXCEPT !.keyword_cooldown_s = cooldown,
                                !.keywords = CleanKeywords(kws)]
    /\ ev' = [op |-> "ev_text", c |-> c, arg |-> "config.update", key |-> "keywords"]
    /\ UNCHANGED <<now, frontVars, phoneVars, esp32_gain_left, esp32_gain_right,
                   radar_buf, radar_seen, eventVars, poseVars, dirVars,
                   alarm, alarm_active, sttVars>>

Init ==
    /\ now = 0
    /\ esp32_by_role = EmptyDict
    /\ espConn = [c \in EspConns |-> EspConnInit]
    /\ esp32_gain_left = 4
    /\ esp32_gain_right = 1
    /\ android_stt = {}
    /\ android_mic_by_conn = EmptyDict
    /\ sttConn = [c \in SttConns |-> SttConnInit]
    /\ radar_buf = [r \in RingNames |-> EmptyRing]
    /\ radar_seen = [r \in RingNames |-> 0]
    /\ android_events = {}
    /\ evConn = [c \in EvConns |-> "new"]
    /\ inbox = [c \in EvConns |-> <<>>]
    /\ bc = [b \in Broadcasters |-> IdleBroadcast]
    /\ head_pose = <<>>
    /\ torso_pose = <<>>
    /\ cal_head_yaw0 = <<>>
    /\ cal_torso_yaw0 = <<>>
    /\ smoothed_torso_direction_deg = <<>>
    /\ latest_direction_payload = <<>>
    /\ radar_tracks = <<>>
    /\ radar_next_track_id = 1
    /\ radar_allocated = {}
    /\ alarm = AlarmInit
    /\ alarm_active = [k \in AlarmClasses |-> FALSE]
    /\ config = ConfigInit
    /\ stt_audio_source = "auto"
    /\ mux = MuxInit
    /\ last_partial_words = <<>>
    /\ keyword_last_hit = EmptyDict
    /\ stt_msg = SttMsgInit
    /\ stt_client = SttClientInit
    /\ ev = [op |-> "init", c |-> 0, arg |-> "", key |-> ""]

\* ------------------------------------------------------------------------
\* Spec: both ingress paths with one connection each, frames and consumers
\* ------------------------------------------------------------------------
IngressQueries == {[role |-> "left", deviceId |-> "d1"]}
IngressHellos == {[kind |-> "object", role |-> "", deviceId |-> "", channels |-> 0]}
IngressEspFrames == {[len |-> 640, amp |-> 4]}
IngressTexts ==
    {[kind |-> "hello", deviceId |-> "", format |-> "", sampleRateHz |-> 0, channels |-> 1]}
IngressSttFrames == {[len |-> 0, l |-> 0, r |-> 0], [len |-> 1280, l |-> 4, r |-> 0]}

Next ==
    \/ \E q \in IngressQueries : EspConnect(1, q)
    \/ \E h \in IngressHellos : EspHello(1, h)
    \/ \E f \in IngressEspFrames : EspFrame(1, f)
    \/ EspExit(1)
    \/ SttConnect(1)
    \/ \E m \in IngressTexts : SttText(1, m)
    \/ \E f \in IngressSttFrames : SttFrame(1, f)
    \/ SttExit(1)
    \/ \E r \in RoleKeys, q \in QueueNames : GetEsp(r, q)
    \/ \E c \in SttConns, q \in QueueNames : GetMic(c, q)

Spec == Init /\ [][Next]_vars

\* ------------------------------------------------------------------------
\* SpecFront: the /esp32/audio connections, their hellos and their exits
\* ------------------------------------------------------------------------
FrontQueries == [role : {"", "left"}, deviceId : {"d1"}]
FrontHellos ==
    [kind : {"binary", "nonjson", "nonobject", "badfield"},
     role : {""}, deviceId : {""}, channels : {0}]
    \cup
    [kind : {"object"}, role : {""}, deviceId : {"", "d2"}, channels : {0}]
FrontFrames == {[len |-> 640, amp |-> 4]}

NextFront ==
    \/ \E c \in EspConns, q \in FrontQueries : EspConnect(c, q)
    \/ \E c \in EspConns, h \in FrontHellos : EspHello(c, h)
    \/ \E c \in EspConns : EspAbort(c)
    \/ \E c \in EspConns, f \in FrontFrames : EspFrame(c, f)
    \/ \E c \in EspConns : EspText(c)
    \/ \E c \in EspConns : EspExit(c)

SpecFront == Init /\ [][NextFront]_vars

\* ------------------------------------------------------------------------
\* SpecPhone: the /stt connections, their text messages and their frames
\* ------------------------------------------------------------------------
\* one text of every kind: unparsable, another type, a valid mono hello and a
\* hello failing each one of the three checks
PhoneTexts ==
    {m \in SttTexts :
        \/ m.kind # "hello"
        \/ m = [kind |-> "hello", deviceId |-> "p1", format |-> "pcm_s16le",
                sampleRateHz |-> 16000, channels |-> 1]
        \/ m = [kind |-> "hello", deviceId |-> "", format |-> "pcm_f32le",
                sampleRateHz |-> 0, channels |-> 0]
        \/ m = [kind |-> "hello", deviceId |-> "", format |-> "",
                sampleRateHz |-> 48000, channels |-> 0]
        \/ m = [kind |-> "hello", deviceId |-> "", format |-> "",
                sampleRateHz |-> 0, channels |-> 3]}

NextPhone ==
    \/ SttConnect(1)
    \/ \E m \in PhoneTexts : SttText(1, m)
    \/ \E f \in SttFrames : SttFrame(1, f)
    \/ SttExit(1)
    \/ \E q \in QueueNames : GetMic(1, q)

SpecPhone == Init /\ [][NextPhone]_vars

\* ------------------------------------------------------------------------
\* SpecDirection: front and phone microphones come and age, the direction
\* loop runs and its messages go out to the /events clients
\* ------------------------------------------------------------------------
\* odd connections are left devices, even connections right devices
DirectionQuery(c) ==
    [role |-> IF c % 2 = 1 THEN "left" ELSE "right", deviceId |-> "d1"]
\* a stereo frame and a mono frame
DirectionSttFrames == {[len |-> 1280, l |-> 4, r |-> 0], [len |-> 640, l |-> 4, r |-> 0]}

NextDirection ==
    \/ \E c \in {1, 2} : EspConnect(c, DirectionQuery(c))
    \/ \E c \in {1, 2}, h \in IngressHellos : EspHello(c, h)
    \/ \E c \in {1, 2} : SttConnect(c)
    \/ \E c \in {1, 2}, f \in DirectionSttFrames :
            SentTotal(sttConn, NumSttConns) < MaxMicFrames /\ SttFrame(c, f)
    \/ Tick
    \/ DirectionTick

SpecDirection == Init /\ [][NextDirection]_vars

\* ------------------------------------------------------------------------
\* SpecPose: a client sends head and torso poses and calibrations while one
\* front microphone feeds the direction loop and the clock runs
\* ------------------------------------------------------------------------
PoseYaws == {30, 45}
\* the calibrations a client has got a reply to
Calibrations(c) ==
    Cardinality({i \in 1..Len(inbox[c]) : inbox[c][i].type = "calibrate.pose_zero"})
PoseHeadMsgs ==
    {[yaw |-> Num(y), pitch |-> Num(0), roll |-> Num(0)] : y \in PoseYaws}
    \cup {[yaw |-> Num(30), pitch |-> Absent, roll |-> Num(0)]}
PoseTorsoMsgs ==
    {[yawDeg |-> Num(30), yaw |-> Absent],
     [yawDeg |-> Absent, yaw |-> Num(30)],
     [yawDeg |-> Null, yaw |-> Num(30)]}

NextPose ==
    \/ EspConnect(1, DirectionQuery(1))
    \/ \E h \in IngressHellos : EspHello(1, h)
    \/ EvConnect(1)
    \/ \E m \in PoseHeadMsgs : EvHeadPose(1, m)
    \/ \E m \in PoseTorsoMsgs : EvTorsoPose(1, m)
    \/ Calibrations(1) < MaxCalibrations /\ EvCalibrate(1)
    \/ now < MaxPoseTime /\ AlarmClock
    \/ DirectionTick
    \/ BcSend("direction", 1)

SpecPose == Init /\ [][NextPose]_vars

\* ------------------------------------------------------------------------
\* SpecConfig: two clients send config.update messages of at most
\* MaxConfigFields fields to a server whose tunables have their defaults
\* ------------------------------------------------------------------------
ConfigFields == {ConfigSteps[i].field : i \in 1..Len(ConfigSteps)} \ {""}

\* the values a field takes in the messages: gains in quarters (-4 is -1.0)
FieldValues(f) ==
    IF f \in {"esp32GainLeft", "esp32GainRight"} THEN {Num(-4), Num(8), Null, Str}
    ELSE IF f = "keywords" THEN {List, Str}
    ELSE IF f \in {"alarmRmsThreshold", "yamnetFireThreshold"} THEN {Num(8), Null, Str}
    ELSE {Num(8), Str}

ConfigObjects ==
    UNION {{obj \in [S -> {Num(-4), Num(8), Null, Str, List}] :
                \A f \in S : obj[f] \in FieldValues(f)} :
           S \in {T \in SUBSET ConfigFields : Cardinality(T) <= MaxConfigFields}}

\* no config.update has changed a tunable yet
ConfigUntouched ==
    config = ConfigInit /\ esp32_gain_left = 4 /\ esp32_gain_right = 1

NextConfig ==
    \/ \E c \in {1, 2} : EvConnect(c)
    \/ ConfigUntouched
            /\ \E c \in {1, 2}, obj \in ConfigObjects : EvConfigUpdate(c, obj)

SpecConfig == Init /\ [][NextConfig]_vars

\* ------------------------------------------------------------------------
\* SpecText: text messages of every kind on one /events and one /stt
\* connection
\* ------------------------------------------------------------------------
TextConfigObjects ==
    {obj \in ConfigObjects :
        DOMAIN obj \in {{"alarmRmsThreshold"}, {"esp32GainRight"}, {"keywords"}}}
TextSttHellos ==
    {[kind |-> "hello", deviceId |-> "p1", format |-> f, sampleRateHz |-> 16000,
      channels |-> 1] : f \in {"pcm_s16le", "pcm_f32le"}}
    \cup {[kind |-> "nonjson", deviceId |-> "", format |-> "", sampleRateHz |-> 0,
           channels |-> 0]}

NextText ==
    \/ EvConnect(1)
    \/ \E kind \in EvIgnoredKinds : EvIgnored(1, kind)
    \/ EvNonObject(1)
    \/ \E m \in PoseHeadMsgs : EvHeadPose(1, m)
    \/ \E m \in PoseTorsoMsgs : EvTorsoPose(1, m)
    \/ \E obj \in TextConfigObjects : EvConfigUpdate(1, obj)
    \/ SttConnect(1)
    \/ \E m \in TextSttHellos : SttText(1, m)
    \/ \E kind \in SttRaisingKinds : SttTextRaises(1, kind)

SpecText == Init /\ [][NextText]_vars

\* ------------------------------------------------------------------------
\* SpecMic: two /stt connections say hello, send frames, raise on a text
\* message and end
\* ------------------------------------------------------------------------
MicHellos ==
    {[kind |-> "hello", deviceId |-> "p1", format |-> "pcm_s16le",
      sampleRateHz |-> 16000, channels |-> 1]}
MicFrames == {[len |-> 640, l |-> 4, r |-> 0]}

NextMic ==
    \/ \E c \in SttConns : SttConnect(c)
    \/ \E c \in SttConns, m \in MicHellos : SttText(c, m)
    \/ \E c \in SttConns, f \in MicFrames : SttFrame(c, f)
    \/ \E c \in SttConns, kind \in SttRaisingKinds : SttTextRaises(c, kind)
    \/ \E c \in SttConns : SttExit(c)

SpecMic == Init /\ [][NextMic]_vars

\* ------------------------------------------------------------------------
\* SpecMux: a left and a right front microphone and a phone microphone send
\* frames, a client selects the STT source and the generator of the STT
\* loop picks frames
\* ------------------------------------------------------------------------
AudioSources == {"auto", "android", "android_mic", " ESP32 ", "bogus", ""}
MuxEspFrames == {[len |-> 640, amp |-> 4]}
MuxMicFrames == {[len |-> 1280, l |-> 4, r |-> 0]}

NextMux ==
    \/ \E c \in {1, 2} : EspConnect(c, DirectionQuery(c))
    \/ \E c \in {1, 2}, h \in IngressHellos : EspHello(c, h)
    \/ \E c \in {1, 2}, f \in MuxEspFrames : EspFrame(c, f)
    \/ \E c \in {1, 2} : EspExit(c)
    \/ SttConnect(1)
    \/ \E f \in MuxMicFrames : SttFrame(1, f)
    \/ EvConnect(1)
    \/ \E source \in AudioSources : EvAudioSource(1, source)
    \/ MuxPass
    \/ MuxArriveEsp
    \/ MuxTimeoutEsp
    \/ MuxArriveMic
    \/ MuxTimeoutMic

SpecMux == Init /\ [][NextMux]_vars

\* ------------------------------------------------------------------------
\* SpecDelta: partial and committed transcripts arrive, with and without a
\* /stt client to send them to
\* ------------------------------------------------------------------------
\* most words of a transcript
MaxWords == 10
WordTable == <<"help", "fire", "a", "b", "c", "d", "e", "f", "g", "h", "i", "j">>

\* the first n words of the table with a blank between two words
TextOf(n) ==
    [i \in 1..(IF n = 0 THEN 0 ELSE 2 * n - 1) |->
        IF i % 2 = 1 THEN WordTable[(i + 1) \div 2] ELSE " "]

DeltaTexts ==
    {TextOf(n) : n \in 0..MaxWords}
    \cup {<<" ", "help", " ", "fire", " ">>, <<"fire">>, <<"fire", " ", "help">>}

NextDelta ==
    \/ SttConnect(1)
    \/ SttExit(1)
    \/ \E text \in DeltaTexts : SttPartial(text)
    \/ \E text \in DeltaTexts : SttFinal(text)
    \/ SttSent

SpecDelta == Init /\ [][NextDelta]_vars

\* ------------------------------------------------------------------------
\* SpecKeywords: a client sets two keywords and a cooldown of two clock
\* steps, stops reading for a while, and transcripts with the keywords arrive
\* ------------------------------------------------------------------------
KeywordLists == {<<"help", "", "fire">>}
KeywordCooldown == 2
KeywordTexts == {<<"help", " ", "fire">>, <<"fire">>, <<"a">>}

KeywordsUnset == config.keywords = <<>>

NextKeywords ==
    \/ EvConnect(1)
    \/ KeywordsUnset /\ \E kws \in KeywordLists : EvConfigKeywords(1, KeywordCooldown, kws)
    \/ EvStall(1)
    \/ EvResume(1)
    \/ AlarmClock
    \/ \E text \in KeywordTexts : SttPartial(text)
    \/ \E text \in KeywordTexts : SttFinal(text)
    \/ BcAwait("keyword", 1)
    \/ BcSend("keyword", 1)
    \/ KwResume

SpecKeywords == Init /\ [][NextKeywords]_vars

\* ------------------------------------------------------------------------
\* SpecRing: blocks of samples are appended to one sample ring; the samples
\* are numbered in the order they are appended
\* ------------------------------------------------------------------------
\* capacity of the ring and number of samples appended in a run
RingMaxSamples == 4
MaxRingAppended == 9

\* the samples appended so far are 1..ev.key
RingAppended == IF ev.op = "ring_append" THEN ev.key ELSE 0

\* a block of k samples is appended to the ring fl
RingAppendBlock(k) ==
    /\ RingAppended + k <= MaxRingAppended
    /\ LET samples == [i \in 1..k |-> RingAppended + i]
       IN  radar_buf' = [radar_buf EXCEPT
                            !["fl"] = SampleRingAppend(@, samples, RingMaxSamples)]
    /\ ev' = [op |-> "ring_append", c |-> 0, arg |-> k, key |-> RingAppended + k]
    /\ UNCHANGED <<now, frontVars, phoneVars, esp32_gain_left, esp32_gain_right,
                   radar_seen, hudVars>>

NextRing == \E k \in 0..(RingMaxSamples + 2) : RingAppendBlock(k)

SpecRing == Init /\ [][NextRing]_vars

\* ------------------------------------------------------------------------
\* SpecRadar: the direction loop runs with a phone microphone that comes
\* at the start, sends one frame within the first second and ages, the
\* spectral analysis finds candidates, tracks are born, refreshed and die
\* while the clock runs past the age limit
\* ------------------------------------------------------------------------
MaxRadarTime == 7
MaxTrackId == 2
RadarCandidate(f, i) == [freq_hz |-> f, intensity |-> i, raw_dir |-> 0]
\* what the analysis of one pass may find, in the order of the peaks
RadarCandidateLists ==
    {<<RadarCandidate(1000, 100)>>,
     <<RadarCandidate(2000, 100)>>,
     <<RadarCandidate(1200, 60), RadarCandidate(1000, 100)>>}
\* a stereo frame
RadarSttFrame == [len |-> 1280, l |-> 4, r |-> 0]

RadarClock ==
    /\ now < MaxRadarTime
    /\ now' = now + 1
    /\ ev' = [op |-> "tick", c |-> 0, arg |-> "", key |-> ""]
    /\ UNCHANGED <<frontVars, phoneVars, esp32_gain_left, esp32_gain_right,
                   radar_buf, radar_seen, hudVars>>

NextRadar ==
    \/ now = 0 /\ SttConnect(1)
    \/ now <= OneSecond /\ SentTotal(sttConn, NumSttConns) < 1 /\ SttFrame(1, RadarSttFrame)
    \/ RadarClock
    \/ DirectionTick
    \/ \E candidates \in RadarCandidateLists :
            /\ UpdateRadarTracks(radar_tracks, radar_next_track_id, candidates,
                                 now).next_track_id <= MaxTrackId + 1
            /\ DirectionPass(candidates)

SpecRadar == Init /\ [][NextRadar]_vars

\* ------------------------------------------------------------------------
\* SpecPeaks: the peak picking applied to one spectrum of NumBins in-band
\* bins; the bins with an excess have scores that differ
\* ------------------------------------------------------------------------
NumBins == 7
PeakBin(e, b) == [excess |-> e, baseline |-> b]
\* quiet bins, bins boosted by 1, 3, 4 and 8 over a baseline of 1, and a bin
\* boosted by 8 over a baseline of 16
PeakBinValues ==
    {PeakBin(0, 1), PeakBin(1, 1), PeakBin(3, 1), PeakBin(4, 1), PeakBin(8, 1),
     PeakBin(8, 16)}
Spectra ==
    {sp \in [1..NumBins -> PeakBinValues] :
        \A b, c \in 1..NumBins :
            (b # c /\ sp[b].excess > 0) => sp[b] # sp[c]}

NextPeaks == \E sp \in Spectra : RadarPickPeaks(sp)

SpecPeaks == Init /\ [][NextPeaks]_vars

\* ------------------------------------------------------------------------
\* SpecClient: the STT client connects, loses sessions and reconnects while
\* frames arrive and its senders read the generator
\* ------------------------------------------------------------------------
NextClient ==
    \/ ClientFrameArrives
    \/ ClientConnect
    \/ ReceiverRaises
    \/ ClientSleepDone
    \/ \E s \in Sessions : SenderNext(s)
    \/ \E s \in Sessions : GenYield(s)
    \/ \E s \in Sessions : SenderSend(s)

SpecClient == Init /\ [][NextClient]_vars

\* ------------------------------------------------------------------------
\* SpecFrames: two connections of the same role and device send frames of
\* good, wrong and odd length while the STT consumer reads
\* ------------------------------------------------------------------------
FramesLens == {[len |-> 640, amp |-> 4], [len |-> 641, amp |-> 4], [len |-> 320, amp |-> 4]}

NextFrames ==
    \/ \E c \in {1, 2} : EspConnect(c, DirectionQuery(1))
    \/ \E c \in {1, 2}, h \in IngressHellos : EspHello(c, h)
    \/ \E c \in {1, 2}, f \in FramesLens : EspFrame(c, f)
    \/ \E c \in {1, 2} : EspText(c)
    \/ GetEsp("left", "stt_q")

SpecFrames == Init /\ [][NextFrames]_vars

\* ------------------------------------------------------------------------
\* SpecPublish: one front microphone and one phone microphone age while the
\* direction loop publishes to two /events clients, one of which goes away
\* ------------------------------------------------------------------------
PublishSttFrames == {[len |-> 1280, l |-> 4, r |-> 0]}
NextPublish ==
    \/ EspConnect(1, DirectionQuery(1))
    \/ \E h \in IngressHellos : EspHello(1, h)
    \/ SttConnect(1)
    \/ \E f \in PublishSttFrames :
            SentTotal(sttConn, NumSttConns) < MaxMicFrames /\ SttFrame(1, f)
    \/ \E c \in {1, 2} : EvConnect(c)
    \/ EvClose(1)
    \/ EvExit(1)
    \/ Tick
    \/ DirectionTick
    \/ \E c \in {1, 2} : BcSend("direction", c)

SpecPublish == Init /\ [][NextPublish]_vars

\* ------------------------------------------------------------------------
\* SpecBroadcast: /events clients come and go while the status loop and the
\* direction loop broadcast to them
\* ------------------------------------------------------------------------
NextBroadcast ==
    \/ EspConnect(1, DirectionQuery(1))
    \/ \E h \in IngressHellos : EspHello(1, h)
    \/ \E c \in {1, 2} : EvConnect(c)
    \/ \E c \in {1, 2} : EvClose(c)
    \/ \E c \in {1, 2} : EvExit(c)
    \/ StatusTick
    \/ DirectionTick
    \/ \E b \in Broadcasters, c \in {1, 2} : BcSend(b, c)

SpecBroadcast == Init /\ [][NextBroadcast]_vars

\* ------------------------------------------------------------------------
\* SpecStall: the direction loop publishes to two /events clients, one of
\* which stops reading for a while or for ever.  The event loop runs every
\* task that can run: the loop's next pass, and a send whose buffer has room
\* again and again.
\* ------------------------------------------------------------------------
NextStall ==
    \/ EspConnect(1, DirectionQuery(1))
    \/ \E h \in IngressHellos : EspHello(1, h)
    \/ \E c \in {1, 2} : EvConnect(c)
    \/ EvStall(1)
    \/ EvResume(1)
    \/ EvClose(1)
    \/ EvExit(1)
    \/ Tick
    \/ DirectionTick
    \/ \E c \in {1, 2} : BcAwait("direction", c)
    \/ \E c \in {1, 2} : BcSend("direction", c)

SpecStall ==
    /\ Init
    /\ [][NextStall]_vars
    /\ WF_vars(DirectionTick)
    /\ \A c \in {1, 2} : SF_vars(BcSend("direction", c))

\* ------------------------------------------------------------------------
\* SpecAlarm: a front microphone sends frames, the alarm loop reads them,
\* detects and lets the holds run out, and an /events client listens
\* ------------------------------------------------------------------------
\* what a window can be classified as: nothing, a fire alarm, a horn in a siren
AlarmPositives == {{}, {"fire"}, {"car_horn", "siren"}}

NextAlarm ==
    \/ EspConnect(1, DirectionQuery(1))
    \/ \E h \in IngressHellos : EspHello(1, h)
    \/ \E f \in IngressEspFrames : EspFrame(1, f)
    \/ EvConnect(1)
    \/ AlarmClock
    \/ AlarmSkip
    \/ \E positive \in AlarmPositives : AlarmEval(positive)
    \/ AlarmEdge
    \/ BcSend("alarm", 1)

SpecAlarm == Init /\ [][NextAlarm]_vars

\* SpecAlarmLive: the alarm loop without a listener, with the clock running
\* on and the loop taking every step it can take; frames come as the device
\* pleases
NextAlarmLive ==
    \/ EspConnect(1, DirectionQuery(1))
    \/ \E h \in IngressHellos : EspHello(1, h)
    \/ \E f \in IngressEspFrames : EspFrame(1, f)
    \/ AlarmClock
    \/ AlarmSkip
    \/ \E positive \in AlarmPositives : AlarmEval(positive)
    \/ AlarmEdge

SpecAlarmLive ==
    /\ Init
    /\ [][NextAlarmLive]_vars
    /\ WF_vars(AlarmClock)
    /\ WF_vars(AlarmSkip)
    /\ WF_vars(\E positive \in AlarmPositives : AlarmEval(positive))
    /\ WF_vars(AlarmEdge)

\* ------------------------------------------------------------------------
\* Claims
\* ------------------------------------------------------------------------
EspStates == {esp32_by_role[r] : r \in DOMAIN esp32_by_role}
MicStates == {android_mic_by_conn[c] : c \in DOMAIN android_mic_by_conn}
AudioStates == EspStates \cup MicStates

\* C1: for every front-mic state and every phone-mic state, neither stt_q nor
\* analysis_q ever holds more frames than the queue capacity (200 in the program).
C1_QueuesBounded ==
    /\ \A s \in EspStates : Len(s.stt_q) <= QueueMaxSize /\ Len(s.analysis_q) <= QueueMaxSize
    /\ \A s \in MicStates : Len(s.stt_q) <= QueueMaxSize /\ Len(s.analysis_q) <= QueueMaxSize

\* C1 witness: a front-mic state and a phone-mic state both have overflowed
\* (a frame was evicted) and hold exactly the capacity in both queues.
C1_Witness ==
    /\ \E s \in EspStates :
            s.evicted > 0 /\ Len(s.stt_q) = QueueMaxSize /\ Len(s.analysis_q) = QueueMaxSize
    /\ \E s \in MicStates :
            s.evicted > 0 /\ Len(s.stt_q) = QueueMaxSize /\ Len(s.analysis_q) = QueueMaxSize

\* the table entry a frame step works on: before the step (pre) and after it
\* (post); a /stt frame on a connection without state works on a fresh default
FrameStep == ev'.op \in {"esp_frame", "stt_frame"}
FrameHasState ==
    IF ev'.op = "esp_frame" THEN ev'.key \in DOMAIN esp32_by_role
    ELSE ev'.c \in DOMAIN android_mic_by_conn
FramePre == IF ev'.op = "esp_frame" THEN esp32_by_role[ev'.key] ELSE android_mic_by_conn[ev'.c]
FramePost == IF ev'.op = "esp_frame" THEN esp32_by_role'[ev'.key] ELSE android_mic_by_conn'[ev'.c]
\* the queue item made from the frame of this step
FrameItemIs(item) ==
    /\ item.c = ev'.c
    /\ item.path = (IF ev'.op = "esp_frame" THEN "esp" ELSE "stt")
    /\ item.n = (IF ev'.op = "esp_frame" THEN espConn'[ev'.c].sent ELSE sttConn'[ev'.c].sent)

\* the drop-oldest step of the claim on stt_q
DropOldest(pre, post) ==
    IF Len(pre.stt_q) >= QueueMaxSize
    THEN /\ Len(post.stt_q) = Len(pre.stt_q)
         /\ SubSeq(post.stt_q, 1, Len(post.stt_q) - 1) = Tail(pre.stt_q)
         /\ FrameItemIs(post.stt_q[Len(post.stt_q)])
         /\ post.dropped_frames = pre.dropped_frames + 1
    ELSE /\ Len(post.stt_q) >= Len(pre.stt_q)
         /\ SubSeq(post.stt_q, 1, Len(pre.stt_q)) = pre.stt_q
         /\ post.dropped_frames = pre.dropped_frames

\* dropped_frames of every state equals the frames evicted from its stt_q
DroppedIsEvicted ==
    /\ \A s \in EspStates : s.dropped_frames = s.evicted
    /\ \A s \in MicStates : s.dropped_frames = s.evicted

\* dropped_frames of a state that stays in its table does not decrease
DroppedMonotone ==
    /\ \A r \in DOMAIN esp32_by_role \cap DOMAIN esp32_by_role' :
            ev'.op # "esp_hello" =>
                esp32_by_role'[r].dropped_frames >= esp32_by_role[r].dropped_frames
    /\ \A c \in DOMAIN android_mic_by_conn \cap DOMAIN android_mic_by_conn' :
            ev'.op # "stt_text" =>
                android_mic_by_conn'[c].dropped_frames >= android_mic_by_conn[c].dropped_frames

\* C2 as stated: every binary frame that arrives for a state is pushed
\* drop-oldest (full: the oldest frame leaves, the new frame is appended,
\* dropped_frames grows by 1; not full: nothing leaves, dropped_frames unchanged).
C2_AsStated ==
    [][(FrameStep /\ FrameHasState) => DropOldest(FramePre, FramePost)]_vars

\* a phone-mic frame that has no sample for every channel is discarded
\* before the queues: empty, of odd length, or shorter than one stereo pair
FrameDiscarded ==
    /\ ev'.op = "stt_frame"
    /\ \/ ev'.arg % 2 # 0
       \/ ev'.arg = 0
       \/ FramePost.channels = 2 /\ ev'.arg < 4

\* C2 amended: every front-mic frame, and every phone-mic frame that decodes to
\* at least one sample per channel, is pushed drop-oldest with dropped_frames
\* counting exactly the evictions from stt_q; a discarded phone-mic frame
\* leaves stt_q and dropped_frames alone; dropped_frames never decreases and
\* always equals the number of frames evicted from stt_q.
C2_DropOldestAccounting ==
    /\ [][(FrameStep /\ FrameHasState /\ ~FrameDiscarded) =>
            DropOldest(FramePre, FramePost)]_vars
    /\ [][(FrameStep /\ FrameHasState /\ FrameDiscarded) =>
            /\ FramePost.stt_q = FramePre.stt_q
            /\ FramePost.dropped_frames = FramePre.dropped_frames]_vars
    /\ [][DroppedMonotone]_vars
    /\ []DroppedIsEvicted

\* C2 witness: a frame has just been pushed into a full stt_q of a front-mic
\* state and of a phone-mic state, each counting its evictions, while the
\* analysis queue overflowed as well.
C2_Witness ==
    /\ ev.op \in {"esp_frame", "stt_frame"}
    /\ \E s \in EspStates : s.dropped_frames >= 1 /\ Len(s.analysis_q) = QueueMaxSize
    /\ \E s \in MicStates : s.dropped_frames >= 1 /\ Len(s.analysis_q) = QueueMaxSize

\* the tables, counters and rings a rejected connection must not touch
AudioTables == <<esp32_by_role, android_mic_by_conn, radar_buf, radar_seen>>

RejectedHelloKinds == {"binary", "nonjson", "nonobject", "badfield"}

\* C3: a /esp32/audio connection whose first message is not a well-formed JSON
\* hello is closed with code 1003 ("Expected JSON hello" for a binary message,
\* "Invalid hello" for text that does not parse) and registers no state: the
\* front-mic table, the counters in it and the rings are unchanged.
C3_BadHelloRejected ==
    [][(ev'.op = "esp_hello" /\ ev'.arg \in RejectedHelloKinds) =>
        /\ espConn'[ev'.c].pc = "done"
        /\ espConn'[ev'.c].close.code = 1003
        /\ espConn'[ev'.c].close.reason =
                (IF ev'.arg = "binary" THEN "Expected JSON hello" ELSE "Invalid hello")
        /\ UNCHANGED AudioTables]_vars

\* C3 witness: a text hello that does not parse was rejected with 1003 while
\* another connection's state, with frames counted, sits in the table.
C3_Witness ==
    /\ ev.op = "esp_hello"
    /\ ev.arg \in {"nonjson", "nonobject", "badfield"}
    /\ espConn[ev.c].close = [code |-> 1003, reason |-> "Invalid hello"]
    /\ \E s \in EspStates : s.frames_received > 0

\* C4 as stated: when a connection exits while the entry of its role was
\* installed by another, still open connection, that entry stays in the table
\* untouched, whatever the two deviceIds are.
C4_ReconnectKeepsNewer ==
    [][(/\ ev'.op = "esp_exit"
        /\ ev'.key \in DOMAIN esp32_by_role
        /\ esp32_by_role[ev'.key].conn # ev'.c
        /\ espConn[esp32_by_role[ev'.key].conn].pc = "open")
       => /\ ev'.key \in DOMAIN esp32_by_role'
          /\ esp32_by_role'[ev'.key] = esp32_by_role[ev'.key]]_vars

\* C5: when a connection that registered (role r, deviceId d) exits, the entry
\* of r is removed if and only if the stored entry has device_id d; otherwise
\* (another device_id, or no entry) the table is unchanged.
C5_ExitRemovesOnDeviceMatch ==
    [][ev'.op = "esp_exit" =>
        LET r == ev'.key
            d == espConn[ev'.c].hello_device_id
        IN  IF r \in DOMAIN esp32_by_role /\ esp32_by_role[r].device_id = d
            THEN /\ r \notin DOMAIN esp32_by_role'
                 /\ DOMAIN esp32_by_role' = DOMAIN esp32_by_role \ {r}
                 /\ \A k \in DOMAIN esp32_by_role' : esp32_by_role'[k] = esp32_by_role[k]
            ELSE esp32_by_role' = esp32_by_role]_vars

\* C5 witness: a connection has exited while its role holds the entry of another
\* device, which is still there.
C5_Witness ==
    /\ ev.op = "esp_exit"
    /\ ev.key \in DOMAIN esp32_by_role
    /\ esp32_by_role[ev.key].device_id # espConn[ev.c].hello_device_id
    /\ espConn[ev.c].hello_role = ev.key

\* a /stt hello the claim calls invalid: a sample rate other than 16000,
\* channels other than 1 or 2, or a format other than pcm_s16le
InvalidSttHello(m) ==
    /\ m.kind = "hello"
    /\ \/ m.sampleRateHz \notin {0, 16000}
       \/ m.channels \notin {0, 1, 2}
       \/ m.format \notin {"", "pcm_s16le"}

\* C6 as stated: after an invalid hello and before any valid hello the
\* connection has no PhoneMicState (its binary frames are ignored).
C6_AsStated ==
    \A c \in SttConns :
        (sttConn[c].badHello /\ ~sttConn[c].goodHello) => c \notin DOMAIN android_mic_by_conn

\* C6 amended: an invalid hello is itself ignored, it creates no PhoneMicState
\* and leaves the tables, RMS fields, queues and rings unchanged; a binary
\* frame that follows is not ignored: the connection then has a state, and
\* until a valid hello that state is the best-effort default (deviceId
\* "android", 16 kHz, 20 ms frames of 640 bytes per channel, 1 or 2 channels).
C6_InvalidHelloIgnoredFramesDefault ==
    /\ [][(ev'.op = "stt_text" /\ InvalidSttHello(ev'.arg)) => UNCHANGED AudioTables]_vars
    /\ [][ev'.op = "stt_frame" => ev'.c \in DOMAIN android_mic_by_conn']_vars
    /\ [](\A c \in DOMAIN android_mic_by_conn :
            ~sttConn[c].goodHello =>
                /\ android_mic_by_conn[c].device_id = "android"
                /\ android_mic_by_conn[c].sample_rate_hz = 16000
                /\ android_mic_by_conn[c].frame_ms = 20
                /\ android_mic_by_conn[c].mono_bytes_per_frame = 640
                /\ android_mic_by_conn[c].channels \in {1, 2}
                /\ android_mic_by_conn[c].bytes_per_frame =
                        640 * android_mic_by_conn[c].channels)

\* C6 witness: a connection that sent only an invalid hello has a state whose
\* stt_q holds one of its frames.
C6_Witness ==
    \E c \in DOMAIN android_mic_by_conn :
        /\ sttConn[c].badHello
        /\ ~sttConn[c].goodHello
        /\ Len(android_mic_by_conn[c].stt_q) > 0
        /\ android_mic_by_conn[c].last_rms > 0

\* a pass of the direction loop, and whether it published
DirectionStep == ev'.op = "direction_tick"
Published == latest_direction_payload' # latest_direction_payload
PublishedSource == IF Published THEN latest_direction_payload'[1].source ELSE ""

\* the front condition: both roles registered, each seen less than 1.0 s ago
FrontCondition ==
    \A role \in {"left", "right"} :
        /\ role \in DOMAIN esp32_by_role
        /\ now - esp32_by_role[role].last_seen_monotonic < OneSecond

\* the back condition: the most recently seen phone-mic state is younger than
\* 1.0 s and stereo
BackCondition ==
    /\ DOMAIN android_mic_by_conn # {}
    /\ now - android_mic_by_conn[LatestMic].last_seen_monotonic < OneSecond
    /\ android_mic_by_conn[LatestMic].channels = 2

\* C7: at a direction tick the published source is "quad" exactly when the
\* front and the back condition both hold, "front" when only the front
\* condition holds and "back" when only the back condition holds.
C7_FusionMode ==
    [][DirectionStep =>
          /\ (PublishedSource = "quad") <=> (FrontCondition /\ BackCondition)
          /\ (FrontCondition /\ ~BackCondition) => PublishedSource = "front"
          /\ (BackCondition /\ ~FrontCondition) => PublishedSource = "back"]_vars

\* C7 witness: a tick has just published "quad" with both front roles and a
\* stereo phone mic fresh, one of them seen half a second ago.
C7_Witness ==
    /\ ev.op = "direction_tick"
    /\ latest_direction_payload # <<>>
    /\ latest_direction_payload[1].source = "quad"
    /\ FrontCondition /\ BackCondition
    /\ now - esp32_by_role["left"].last_seen_monotonic = 1

\* a single channel is fresh: a fresh phone mic, or a fresh front role
PhoneFresh ==
    \E c \in DOMAIN android_mic_by_conn :
        now - android_mic_by_conn[c].last_seen_monotonic < OneSecond
FrontRoleFresh ==
    \E role \in {"left", "right"} :
        /\ role \in DOMAIN esp32_by_role
        /\ now - esp32_by_role[role].last_seen_monotonic < OneSecond
SingleChannel == ~FrontCondition /\ ~BackCondition /\ (PhoneFresh \/ FrontRoleFresh)

\* C8 as stated: in the single-channel case the tick publishes source "mono",
\* with raw direction 180 for the phone mic and 0 for a front mic.
C8_AsStated ==
    [][(DirectionStep /\ SingleChannel) =>
          /\ PublishedSource = "mono"
          /\ latest_direction_payload'[1].rawDirectionDeg
                = IF PhoneFresh THEN 180 ELSE 0]_vars

\* C8: in the single-channel case the tick publishes a fixed raw direction and
\* names the side of the channel: source "back" with 180 if the fresh channel
\* is the phone mic, source "front" with 0 if it is a front mic; "mono" is
\* never published.
C8_SingleChannelSource ==
    [][DirectionStep =>
          /\ PublishedSource # "mono"
          /\ SingleChannel =>
                /\ Published
                /\ latest_direction_payload'[1].source
                      = IF PhoneFresh THEN "back" ELSE "front"
                /\ latest_direction_payload'[1].rawDirectionDeg
                      = IF PhoneFresh THEN 180 ELSE 0]_vars

\* C8 witness: a tick has just published "back" at 180 for a fresh mono phone
\* mic while a front role is fresh too.
C8_Witness ==
    /\ ev.op = "direction_tick"
    /\ SingleChannel /\ PhoneFresh /\ FrontRoleFresh
    /\ android_mic_by_conn[LatestMic].channels = 1
    /\ latest_direction_payload # <<>>
    /\ latest_direction_payload[1].source = "back"
    /\ latest_direction_payload[1].rawDirectionDeg = 180

\* the direction.ui ticks a client has received, in the order of arrival
RECURSIVE DirectionTicks(_)
DirectionTicks(msgs) ==
    IF msgs = <<>> THEN <<>>
    ELSE IF Head(msgs).type = "direction.ui"
    THEN <<Head(msgs).tick>> \o DirectionTicks(Tail(msgs))
    ELSE DirectionTicks(Tail(msgs))

StrictlyIncreasing(seq) ==
    \A i \in 1..(Len(seq) - 1) : seq[i] < seq[i + 1]

Received(c, tick) ==
    Cardinality({i \in 1..Len(inbox[c]) :
                    inbox[c][i] = [type |-> "direction.ui", tick |-> tick]})

\* C9: a direction tick replaces the cached payload and broadcasts it if and
\* only if a front role or a phone mic is fresh; a tick without a fresh source
\* sends nothing and leaves the cache alone; every client registered at a
\* publishing tick is sent that tick's direction.ui exactly once (unless the
\* send to it raises), and a client receives the messages in tick order.
C9_PublishIffFresh ==
    /\ [][DirectionStep =>
            /\ Published <=> (PhoneFresh \/ FrontRoleFresh)
            /\ (Published /\ android_events # {}) =>
                  /\ bc'["direction"].snap = android_events
                  /\ bc'["direction"].todo = android_events
                  /\ bc'["direction"].msg.type = "direction.ui"
                  /\ bc'["direction"].msg.tick = latest_direction_payload'[1].tick
            /\ (Published /\ android_events = {}) =>
                  /\ inbox' = inbox
                  /\ bc'["direction"].pc = "idle"
            /\ ~Published =>
                  /\ inbox' = inbox
                  /\ bc' = bc
                  /\ latest_direction_payload' = latest_direction_payload]_vars
    /\ [](\A c \in EvConns : StrictlyIncreasing(DirectionTicks(inbox[c])))
    /\ [](bc["direction"].pc = "sending" =>
            \A c \in bc["direction"].snap :
                Received(c, bc["direction"].msg.tick)
                    = IF c \in bc["direction"].sentOk THEN 1 ELSE 0)
    /\ [](bc["direction"].pc = "idle" /\ bc["direction"].snap # {} =>
            /\ bc["direction"].sentOk \cup bc["direction"].dead = bc["direction"].snap
            /\ \A c \in bc["direction"].sentOk :
                  Received(c, bc["direction"].msg.tick) = 1)

\* C9 witness: a client has received the direction.ui of tick 1 and of tick 2,
\* and the last tick found the front microphone stale and published nothing.
C9_Witness ==
    /\ \E c \in EvConns : DirectionTicks(inbox[c]) = <<1, 2>>
    /\ ev.op = "direction_tick" /\ ev.arg = ""
    /\ "left" \in DOMAIN esp32_by_role
    /\ ~FrontRoleFresh

\* the broadcast of task b has just completed
Completes(b) == ev'.op = "bc_send" /\ ev'.key = b /\ bc'[b].pc = "idle"

\* C10 as stated: when a broadcast completes, every member whose send raised
\* is out of the set, every member whose send succeeded is in the set unless
\* its own handler removed it, and every member of the snapshot was sent to.
C10_AsStated ==
    [][\A b \in Broadcasters : Completes(b) =>
          /\ \A c \in bc'[b].dead : c \notin android_events'
          /\ \A c \in bc'[b].sentOk : c \in android_events' \/ evConn'[c] = "done"
          /\ bc'[b].sentOk \cup bc'[b].dead = bc'[b].snap]_vars

\* C10: when a broadcast completes, every member whose send raised is out of
\* the set, every member whose send succeeded and whose connection is still
\* open is in the set (a closed one may have been removed by its own handler
\* or by another broadcast whose send to it raised), and every member of the
\* snapshot was sent to, whatever happened to the others.
C10_BroadcastEviction ==
    [][\A b \in Broadcasters : Completes(b) =>
          /\ \A c \in bc'[b].dead : c \notin android_events'
          /\ \A c \in bc'[b].sentOk : c \in android_events' \/ evConn'[c] # "open"
          /\ bc'[b].sentOk \cup bc'[b].dead = bc'[b].snap
          /\ \A c \in bc'[b].sentOk :
                \E i \in 1..Len(inbox'[c]) : inbox'[c][i] = bc'[b].msg]_vars

\* C10 witness: a broadcast has just completed in which the first send raised
\* and a later one succeeded; the failed member is gone, the other one stays.
C10_Witness ==
    \E b \in Broadcasters :
        /\ ev.op = "bc_send" /\ ev.key = b /\ ev.arg = "sent"
        /\ bc[b].pc = "idle"
        /\ bc[b].dead # {}
        /\ bc[b].sentOk # {}
        /\ bc[b].dead \cap android_events = {}
        /\ bc[b].sentOk \subseteq android_events

\* C11 as stated: a send that does not complete does not hold up the
\* publisher: a broadcast of the direction loop that is under way always
\* comes to its end, so that the loop reaches its following ticks and the
\* other clients get their messages.
C11_SlowClientDoesNotBlock ==
    (bc["direction"].pc = "sending") ~> (bc["direction"].pc = "idle")

\* the hold of class k has run out on the server's clock
HoldElapsed(k) == now - alarm.last_positive[k] >= HoldS(k)

\* C12 as stated: an alarm that has started after a positive detection and
\* whose hold has run out is eventually ended (or detected again), whatever
\* the audio sources do.
C12_EndedAfterHold ==
    \A k \in AlarmClasses :
        (alarm_active[k] /\ alarm.detected[k] /\ HoldElapsed(k))
            ~> (~alarm_active[k] \/ ~HoldElapsed(k))

\* the alarm loop has just handled the edges of class k
EdgeStep(k) == ev'.op = "alarm_edge" /\ ev'.key = k

\* the states of class k a client has received, in the order of arrival
RECURSIVE AlarmStates(_, _)
AlarmStates(msgs, k) ==
    IF msgs = <<>> THEN <<>>
    ELSE IF Head(msgs).type = AlarmType(k)
    THEN <<Head(msgs).state>> \o AlarmStates(Tail(msgs), k)
    ELSE AlarmStates(Tail(msgs), k)

\* C13: an "ended" event of a class is never broadcast while less than the
\* hold has elapsed since the most recent positive detection of the class,
\* and a pass that detects a class that is already active sets last_positive
\* to its clock value and sends no event for the class.
C13_NoEndedDuringHold ==
    /\ [][\A k \in AlarmClasses :
            (EdgeStep(k) /\ ev'.arg = "ended" /\ alarm.detected[k])
                => now - alarm.last_positive[k] >= HoldS(k)]_vars
    /\ [][\A k \in AlarmClasses :
            (ev'.op = "alarm_eval" /\ k \in ev'.arg)
                => /\ alarm'.last_positive[k] = now
                   /\ alarm_active' = alarm_active
                   /\ bc' = bc]_vars
    /\ [][\A k \in AlarmClasses :
            (EdgeStep(k) /\ alarm.active[k] /\ alarm.detected[k]
                /\ alarm.last_positive[k] = alarm.now)
                => ev'.arg = ""]_vars

\* C13 witness: the fire alarm, detected earlier, has just been ended, its
\* hold over, and the client has got "started" and "ended".
C13_Witness ==
    /\ ev.op = "alarm_edge" /\ ev.key = "fire" /\ ev.arg = "ended"
    /\ alarm.detected["fire"]
    /\ now - alarm.last_positive["fire"] >= HoldFire
    /\ bc["alarm"].snap = {1}
    /\ AlarmStates(inbox[1], "fire") \o <<"ended">> = <<"started", "ended">>

\* C14: for each class the loop sends "started" only while the class is not
\* active and "ended" only while it is active, beginning with "started"; the
\* server's flag of the class is set by "started", cleared by "ended" and
\* changed by nothing else, so that the events alternate and the flag is true
\* exactly between a "started" and the next "ended".
C14_StartedEndedAlternate ==
    /\ \A k \in AlarmClasses : ~alarm_active[k]
    /\ [][\A k \in AlarmClasses :
            IF EdgeStep(k) /\ ev'.arg = "started"
            THEN ~alarm_active[k] /\ alarm_active'[k]
                 /\ (android_events # {} => bc'["alarm"].msg = AlarmMsg(k, "started"))
            ELSE IF EdgeStep(k) /\ ev'.arg = "ended"
            THEN alarm_active[k] /\ ~alarm_active'[k]
                 /\ (android_events # {} => bc'["alarm"].msg = AlarmMsg(k, "ended"))
            ELSE alarm_active'[k] = alarm_active[k]
                 /\ (bc'["alarm"].count = bc["alarm"].count
                        \/ bc'["alarm"].msg.type # AlarmType(k))]_vars
    /\ [](\A k \in AlarmClasses : alarm_active[k] = alarm.active[k])

\* C14 witness: the client has received "started", "ended" and "started" of
\* the fire alarm, and the flag is set.
C14_Witness ==
    /\ AlarmStates(inbox[1], "fire") = <<"started", "ended", "started">>
    /\ alarm_active["fire"]

\* the direction loop has just published an event
PublishStep == ev'.op = "direction_tick" /\ ev'.arg # ""

\* the handler of calibrate.pose_zero has just run
CalibrateStep == ev'.op = "ev_text" /\ ev'.arg = "calibrate.pose_zero"

HeadFresh == FreshPose(head_pose) # <<>>
TorsoFresh == FreshPose(torso_pose) # <<>>

\* C15: after a direction tick at which a fresh head pose and a fresh torso
\* pose coexist, both pose zeros are set, whatever pose and calibration
\* messages came before (so also after the first such tick).
C15_AutoCalibrate ==
    [][(ev'.op = "direction_tick" /\ HeadFresh /\ TorsoFresh)
        => (cal_head_yaw0' # <<>> /\ cal_torso_yaw0' # <<>>)]_vars

\* C16: a calibrate.pose_zero received while both poses are fresh stores the
\* two current yaws as the zeros and replies with exactly these values; a
\* pose that is not fresh at that time leaves its zero as it was; and while
\* the yaws of both poses equal the stored zeros, every published direction
\* event has deltaYawDeg = 0.
C16_CalibrationRoundTrip ==
    /\ [][CalibrateStep =>
            /\ (HeadFresh /\ TorsoFresh) =>
                  /\ cal_head_yaw0' = <<head_pose[1].yaw_deg>>
                  /\ cal_torso_yaw0' = <<torso_pose[1].yaw_deg>>
                  /\ inbox'[ev'.c] =
                        Append(inbox[ev'.c],
                               PoseZeroMsg(<<head_pose[1].yaw_deg>>,
                                           <<torso_pose[1].yaw_deg>>))
            /\ ~HeadFresh => cal_head_yaw0' = cal_head_yaw0
            /\ ~TorsoFresh => cal_torso_yaw0' = cal_torso_yaw0]_vars
    /\ [][(PublishStep /\ head_pose # <<>> /\ torso_pose # <<>>
            /\ cal_head_yaw0 = <<head_pose[1].yaw_deg>>
            /\ cal_torso_yaw0 = <<torso_pose[1].yaw_deg>>)
            => latest_direction_payload'[1].deltaYawDeg = 0]_vars

\* C16 witness: the client calibrated with head yaw 45 and torso yaw 30, got
\* these two values back, and a direction event published afterwards with
\* both poses still fresh has deltaYawDeg = 0.
C16_Witness ==
    /\ ev.op = "direction_tick" /\ ev.arg # ""
    /\ HeadFresh /\ TorsoFresh
    /\ \E i \in 1..Len(inbox[1]) : inbox[1][i] = PoseZeroMsg(<<45>>, <<30>>)
    /\ cal_head_yaw0 = <<45>> /\ cal_torso_yaw0 = <<30>>
    /\ head_pose[1].yaw_deg = 45 /\ torso_pose[1].yaw_deg = 30
    /\ latest_direction_payload[1].deltaYawDeg = 0

\* C17: a direction event published at a tick at which the head pose or the
\* torso pose is absent or was last seen more than 1.0 s ago, or at which the
\* pose zeros are not both set, has deltaYawDeg = 0 and a directionDeg that is
\* the wrapped smoothed torso direction.
C17_DeltaYawZero ==
    [][(PublishStep /\ (\/ ~HeadFresh
                        \/ ~TorsoFresh
                        \/ cal_head_yaw0 = <<>>
                        \/ cal_torso_yaw0 = <<>>))
        => /\ latest_direction_payload'[1].deltaYawDeg = 0
           /\ latest_direction_payload'[1].directionDeg =
                 WrapDeg(latest_direction_payload'[1].torsoDirectionDeg)]_vars

\* C17 witness: an event was published with deltaYawDeg = 0 while the head
\* pose, its yaw different from the stored zero, was stale.
C17_Witness ==
    /\ ev.op = "direction_tick" /\ ev.arg # ""
    /\ head_pose # <<>> /\ ~HeadFresh
    /\ cal_head_yaw0 # <<>> /\ cal_torso_yaw0 # <<>>
    /\ cal_head_yaw0[1] # head_pose[1].yaw_deg
    /\ latest_direction_payload[1].deltaYawDeg = 0

\* the handler of config.update has just run on the object ev'.key
ConfigUpdateStep == ev'.op = "ev_text" /\ ev'.arg = "config.update"

\* a field whose value has the type the server expects
WellFormed(obj, f) ==
    IF f = "keywords" THEN obj[f].t = "list" ELSE obj[f].t = "num"

\* a field whose value is a string where a number or a list is expected, or
\* a list where a number is expected
WrongTyped(obj, f) ==
    obj[f].t = "str" \/ (f # "keywords" /\ obj[f].t = "list")

\* the field's value is what the server has stored after the step
Applied(obj, f) ==
    IF f = "esp32GainLeft" THEN esp32_gain_left' = Max(0, obj[f].v)
    ELSE IF f = "esp32GainRight" THEN esp32_gain_right' = Max(0, obj[f].v)
    ELSE IF f = "keywords" THEN config'.keywords = <<"kw">>
    ELSE config'[ConfigSteps[CHOOSE i \in 1..Len(ConfigSteps) :
                                ConfigSteps[i].field = f].key] = obj[f].v

\* C18: a config.update in which exactly one field has a value of the wrong
\* type applies every well-formed field of the message.
C18_BadFieldDoesNotReject ==
    [][(ConfigUpdateStep
        /\ Cardinality({f \in DOMAIN ev'.key : WrongTyped(ev'.key, f)}) = 1)
        => \A f \in DOMAIN ev'.key :
              WellFormed(ev'.key, f) => Applied(ev'.key, f)]_vars

\* a text message has just been handled on /events, on /stt
EvTextStep == ev'.op = "ev_text"
SttTextStep == ev'.op = "stt_text"

\* C19: no text message ends the handler of its connection: after a text on
\* /events the connection is still open and in the broadcast set, after a
\* text on /stt the connection is still open and registered and keeps its
\* phone-mic state if it had one.
C19_TextNeverEndsHandler ==
    /\ [][EvTextStep =>
            /\ evConn'[ev'.c] = evConn[ev'.c]
            /\ ev'.c \in android_events']_vars
    /\ [][SttTextStep =>
            /\ sttConn'[ev'.c].pc = "open"
            /\ ev'.c \in android_stt'
            /\ (ev'.c \in DOMAIN android_mic_by_conn
                    => ev'.c \in DOMAIN android_mic_by_conn')]_vars

\* C20: after every config.update both stored gains are at least 0.
C20_GainsNonNegative ==
    [][ConfigUpdateStep => (esp32_gain_left' >= 0 /\ esp32_gain_right' >= 0)]_vars

\* a binary frame has just been handled on /esp32/audio while its role had a
\* state
EspFrameStep == ev'.op = "esp_frame" /\ ev'.key \in DOMAIN esp32_by_role

\* C21: a front-mic frame whose RMS computation raises (a buffer of odd
\* length) is appended to neither stt_q nor analysis_q, and the connection
\* stays open with its state registered.
C21_BadFrameDropped ==
    [][(EspFrameStep /\ ~PcmDecodes(ev'.arg))
        => /\ esp32_by_role'[ev'.key].stt_q = esp32_by_role[ev'.key].stt_q
           /\ esp32_by_role'[ev'.key].analysis_q = esp32_by_role[ev'.key].analysis_q
           /\ espConn'[ev'.c].pc = "open"
           /\ ev'.key \in DOMAIN esp32_by_role']_vars

\* C22: framesReceived of a front-mic state equals the number of binary
\* messages received since its hello on the connection that installed the
\* state, and badFrameSizes counts those of them whose length differs from
\* bytes_per_frame; text messages and the messages of any other connection of
\* the role change neither counter.
C22_FrameCounters ==
    /\ [](\A role \in DOMAIN esp32_by_role :
            esp32_by_role[role].frames_received
                = espConn[esp32_by_role[role].conn].sent)
    /\ [][EspFrameStep =>
            LET s == esp32_by_role[ev'.key]
                t == esp32_by_role'[ev'.key]
            IN  IF ev'.c = s.conn
                THEN t.bad_frame_sizes =
                        s.bad_frame_sizes
                            + (IF ev'.arg # s.bytes_per_frame THEN 1 ELSE 0)
                ELSE /\ t.frames_received = s.frames_received
                     /\ t.bad_frame_sizes = s.bad_frame_sizes]_vars
    /\ [][ev'.op = "esp_text" => esp32_by_role' = esp32_by_role]_vars

\* a binary frame has just been handled on /stt
SttFrameStep == ev'.op = "stt_frame"

\* the phone-mic state a frame of connection c finds: the registered one or
\* the default one the first frame creates
MicStateBefore(c) ==
    IF c \in DOMAIN android_mic_by_conn THEN android_mic_by_conn[c] ELSE DefaultMicState

\* the frame just handled was queued as a frame of the given kind
QueuedAs(c, kind) ==
    LET q == android_mic_by_conn'[c].stt_q
    IN  Len(q) > 0 /\ q[Len(q)].kind = kind /\ q[Len(q)].n = sttConn'[c].sent

\* C23: a phone-mic frame whose length is exactly the frame size of the
\* other channel configuration switches channels and bytes_per_frame before
\* it is processed and is itself handled with the new layout (queued as a
\* downmix when the state became stereo, as it came when it became mono);
\* after every frame channels is 1 or 2 and bytes_per_frame is channels times
\* mono_bytes_per_frame.
C23_ChannelRedetection ==
    /\ [][SttFrameStep =>
            LET s == MicStateBefore(ev'.c)
                t == android_mic_by_conn'[ev'.c]
            IN  /\ (s.channels = 1 /\ ev'.arg = 2 * s.mono_bytes_per_frame)
                      => (t.channels = 2 /\ QueuedAs(ev'.c, "downmix"))
                /\ (s.channels = 2 /\ ev'.arg = s.mono_bytes_per_frame)
                      => (t.channels = 1 /\ QueuedAs(ev'.c, "raw"))
                /\ t.channels \in {1, 2}
                /\ t.bytes_per_frame = t.channels * t.mono_bytes_per_frame]_vars
    /\ [](\A c \in DOMAIN android_mic_by_conn :
            /\ android_mic_by_conn[c].channels \in {1, 2}
            /\ android_mic_by_conn[c].bytes_per_frame =
                  android_mic_by_conn[c].channels
                      * android_mic_by_conn[c].mono_bytes_per_frame)

\* C23 witness: a mono frame switched the stereo state to mono and the
\* stereo frame after it switched it back: the queue holds the first as it
\* came and the second as a downmix.
C23_Witness ==
    /\ ev.op = "stt_frame" /\ ev.arg = 1280
    /\ 1 \in DOMAIN android_mic_by_conn
    /\ android_mic_by_conn[1].channels = 2
    /\ Len(android_mic_by_conn[1].stt_q) = 2
    /\ android_mic_by_conn[1].stt_q[1].kind = "raw"
    /\ android_mic_by_conn[1].stt_q[2].kind = "downmix"

\* the /stt connections whose handler is running
SttRunning == {c \in SttConns : sttConn[c].pc = "open"}

\* C24: every phone-mic state is stored under a /stt connection whose
\* handler is still running, a connection has at most one state (the table
\* is keyed by connection and each state is stored once), and the handler's
\* exit, by a close or by an exception, removes the state of its connection
\* and no other.
C24_MicStateOwnedByRunningHandler ==
    /\ [](DOMAIN android_mic_by_conn \subseteq SttRunning)
    /\ [](\A c \in DOMAIN android_mic_by_conn :
            Cardinality({d \in DOMAIN android_mic_by_conn :
                android_mic_by_conn[d].ord = android_mic_by_conn[c].ord}) = 1)
    /\ [][(ev'.op = "stt_exit" \/ (ev'.op = "stt_text" /\ ev'.key = "raised"))
            => /\ ev'.c \notin DOMAIN android_mic_by_conn'
               /\ DOMAIN android_mic_by_conn' = DOMAIN android_mic_by_conn \ {ev'.c}]_vars

\* C24 witness: connection 1 said hello and its handler has ended, its state
\* is gone and the state of connection 2 is still there.
C24_Witness ==
    /\ sttConn[1].pc = "done" /\ sttConn[1].goodHello
    /\ 1 \notin DOMAIN android_mic_by_conn
    /\ 2 \in DOMAIN android_mic_by_conn

\* C25: every key of the front-microphone table, and the role field of every
\* state in it, is "left" or "right", whatever the hello and the URL query
\* say about the role.
C25_RolesLeftOrRight ==
    \A role \in DOMAIN esp32_by_role :
        /\ role \in {"left", "right"}
        /\ esp32_by_role[role].role \in {"left", "right"}

\* the frames of one connection stand in a queue in the order they were sent
InArrivalOrder(q) ==
    \A i, j \in 1..Len(q) : (i < j /\ q[i].c = q[j].c) => q[i].n < q[j].n

\* C26: the frames a consumer takes from an stt_q come out in arrival
\* order and each at most once (a get removes the oldest queued frame and
\* no copy of it stays behind), and a push either appends or evicts the one
\* frame that is older than every frame still queued before it appends.
C26_SttQueueFifo ==
    /\ [](\A role \in DOMAIN esp32_by_role : InArrivalOrder(esp32_by_role[role].stt_q))
    /\ [][ev'.op = "get_esp" =>
            LET q == esp32_by_role[ev'.key].stt_q
                r == esp32_by_role'[ev'.key].stt_q
            IN  /\ ev'.arg = Head(q)
                /\ r = Tail(q)
                /\ \A i \in 1..Len(r) :
                      /\ r[i] # ev'.arg
                      /\ r[i].c = ev'.arg.c => r[i].n > ev'.arg.n]_vars
    /\ [][EspFrameStep =>
            LET q == esp32_by_role[ev'.key].stt_q
                r == esp32_by_role'[ev'.key].stt_q
            IN  /\ Len(r) > 0
                /\ r[Len(r)] = [path |-> "esp", c |-> ev'.c, n |-> espConn'[ev'.c].sent,
                                kind |-> "raw"]
                /\ \/ r = Append(q, r[Len(r)])
                   \/ QueueFull(q) /\ r = Append(Tail(q), r[Len(r)])]_vars

\* C26 witness: the first frame was evicted from the full queue and the
\* consumer has just taken the second one, the oldest left.
C26_Witness ==
    /\ ev.op = "get_esp" /\ ev.arg.n = 2
    /\ "left" \in DOMAIN esp32_by_role
    /\ esp32_by_role["left"].evicted = 1
    /\ Len(esp32_by_role["left"].stt_q) > 0

\* the generator has just yielded a frame
MuxYieldStep == ev'.op = "mux_yield"

\* C27: while the STT source is "esp32" only front-microphone frames are
\* yielded and while it is "android_mic" only phone-microphone frames; an
\* audio.source message with an unrecognized source leaves the selection
\* unchanged and "android" is stored as "android_mic".
C27_SourceExclusive ==
    /\ [][MuxYieldStep =>
            /\ stt_audio_source = "esp32" => ev'.arg.path = "esp"
            /\ stt_audio_source = "android_mic" => ev'.arg.path = "stt"]_vars
    /\ [][(ev'.op = "ev_text" /\ ev'.arg = "audio.source") =>
            stt_audio_source' =
                IF ev'.key = "android" THEN "android_mic"
                ELSE IF ev'.key \in {"auto", "android_mic", "esp32"} THEN ev'.key
                ELSE IF ev'.key \in {"bogus", ""} THEN stt_audio_source
                ELSE stt_audio_source']_vars

\* a registered front role has a frame waiting in its stt_q
FrontFrameWaiting ==
    \E role \in {"left", "right"} \cap DOMAIN esp32_by_role :
        Len(esp32_by_role[role].stt_q) > 0

\* C28: with the source "auto", whenever a registered front role has a frame
\* waiting in its stt_q the next frame yielded comes from a front-microphone
\* queue; a phone-microphone frame is yielded only when neither front role
\* has one waiting.
C28_AutoPrefersFront ==
    [][(MuxYieldStep /\ ev'.key = "auto" /\ stt_audio_source = "auto"
            /\ FrontFrameWaiting)
        => ev'.arg.path = "esp"]_vars

\* words begins with the words of last
Extends(last, words) ==
    /\ Len(words) >= Len(last)
    /\ \A i \in 1..Len(last) : words[i] = last[i]

\* C30: for a partial transcript whose words extend the previous partial's
\* words deltaWords is the first new words, at most 8 of them; for one that
\* revises them it is empty; it never has more than 8 words; the partial is
\* remembered as the previous one, and once a committed transcript has been
\* handled the previous words are empty.
C30_DeltaWords ==
    /\ [][ev'.op = "stt_partial" =>
            LET last == last_partial_words
                words == ev'.key
                delta == ev'.arg
            IN  /\ Len(delta) <= 8
                /\ Extends(last, words) =>
                      /\ Len(delta) = Min(8, Len(words) - Len(last))
                      /\ \A i \in 1..Len(delta) : delta[i] = words[Len(last) + i]
                /\ ~Extends(last, words) => delta = <<>>
                /\ last_partial_words' = words]_vars
    /\ [][((ev'.op = "stt_final" /\ ev'.arg = "done")
            \/ (ev'.op = "stt_sent" /\ ev'.arg = "final"))
           => last_partial_words' = <<>>]_vars

\* C30 witness: a partial of one word was followed by a partial that adds more
\* than eight words to it: the first eight of them are reported.
C30_Witness ==
    /\ ev.op = "stt_partial"
    /\ Len(ev.key) > 9
    /\ Len(ev.arg) = 8
    /\ ev.arg[1] = ev.key[2]
    /\ last_partial_words = ev.key

\* an alert.keyword for kw has just been handed to the /events clients
KeywordEventStep(kw) ==
    /\ bc'["keyword"].count = bc["keyword"].count + 1
    /\ bc'["keyword"].msg = KeywordMsg(kw)

\* C29: two alert.keyword events for the same keyword are never less than
\* keyword_cooldown_s apart, and a keyword that is in the transcript and has
\* had no event for keyword_cooldown_s gets its event whatever other keywords
\* were hit.
C29_KeywordCooldown ==
    /\ [][\A kw \in DOMAIN stt_msg.sent :
            KeywordEventStep(kw) => now' - stt_msg.sent[kw] >= config.keyword_cooldown_s]_vars
    /\ [][(stt_msg.pc # "idle" /\ stt_msg'.pc = "idle" /\ android_events # {}) =>
            \A j \in 1..Len(stt_msg.kws) :
                KeywordIn(stt_msg.kws[j], stt_msg.words) =>
                    stt_msg.t - LastHit(keyword_last_hit', stt_msg.kws[j])
                        < Max(1, config.keyword_cooldown_s)]_vars

\* C39: the active front role of the generator starts as left and changes
\* only in a pass in which both roles are registered and the other role's
\* last_rms is more than 1.5 times the active role's; a frame taken from the
\* other role while the active role is not registered leaves the active role
\* as it was.
C39_StickyRole ==
    /\ (ev.op = "init" => mux.active_role = "left")
    /\ [][mux'.active_role # mux.active_role =>
            /\ mux.pc = "top"
            /\ mux'.active_role = OtherRole(mux.active_role)
            /\ {"left", "right"} \subseteq DOMAIN esp32_by_role
            /\ 2 * esp32_by_role[mux'.active_role].last_rms
                  > 3 * esp32_by_role[mux.active_role].last_rms]_vars
    /\ [][(MuxYieldStep /\ ev'.arg.path = "esp"
            /\ mux.active_role \notin DOMAIN esp32_by_role)
           => /\ mux'.active_role = mux.active_role
              /\ ev'.arg.c = esp32_by_role[OtherRole(mux.active_role)].conn]_vars

\* C39 witness: the right microphone was louder and became the active role,
\* then it went away: a frame has just been taken from the left one, the
\* only one registered, and the active role is still right.
C39_Witness ==
    /\ ev.op = "mux_yield" /\ ev.arg.path = "esp"
    /\ mux.active_role = "right"
    /\ "left" \in DOMAIN esp32_by_role
    /\ ev.arg.c = esp32_by_role["left"].conn

\* largest angle, in whole degrees, wrap_deg is tried on
MaxWrapDeg == 720

InHalfOpenTurn(deg) == -180 < deg /\ deg <= 180

\* the directions of the cached direction payload lie in (-180, 180]
PublishedInHalfOpenTurn ==
    latest_direction_payload # <<>> =>
        /\ InHalfOpenTurn(latest_direction_payload[1].directionDeg)
        /\ InHalfOpenTurn(latest_direction_payload[1].torsoDirectionDeg)

\* C37: wrap_deg(x) lies in (-180, 180] for every whole angle x, 180 and
\* -180 both give 180, and the directionDeg and torsoDirectionDeg of every
\* published direction event lie in that interval.
C37_WrapDegRange ==
    /\ PublishedInHalfOpenTurn
    /\ \A x \in (-MaxWrapDeg)..MaxWrapDeg : InHalfOpenTurn(WrapDeg(x))
    /\ WrapDeg(180) = 180
    /\ WrapDeg(-180) = 180

\* the total length of the blocks of a ring
RECURSIVE PartsLength(_)
PartsLength(parts) == IF parts = <<>> THEN 0 ELSE Len(Head(parts)) + PartsLength(Tail(parts))

\* seq is the end of the samples 1..n
SuffixOfAppended(seq, n) ==
    /\ Len(seq) <= n
    /\ \A i \in 1..Len(seq) : seq[i] = n - Len(seq) + i

\* C36: after any sequence of appends get() returns a suffix of the
\* concatenation of all appended blocks, at most max_samples long; the total
\* sample count is the summed length of the chunks and never exceeds
\* max_samples; appending a zero-length block changes nothing.
C36_SampleRing ==
    /\ [](ev.op = "ring_append" =>
            /\ SuffixOfAppended(SampleRingGet(radar_buf["fl"]), ev.key)
            /\ Len(SampleRingGet(radar_buf["fl"])) <= RingMaxSamples
            /\ radar_buf["fl"].total = PartsLength(radar_buf["fl"].parts)
            /\ radar_buf["fl"].total <= RingMaxSamples)
    /\ [][(ev'.op = "ring_append" /\ ev'.arg = 0) => radar_buf' = radar_buf]_vars

\* C36 witness: a block longer than the ring was appended to a ring that
\* held samples: the ring holds exactly its last max_samples samples.
C36_Witness ==
    /\ ev.op = "ring_append" /\ ev.arg > RingMaxSamples /\ ev.key > ev.arg
    /\ Len(SampleRingGet(radar_buf["fl"])) = RingMaxSamples

\* ------------------------------------------------------------------------
\* Radar tracks
\* ------------------------------------------------------------------------
\* a pass of the direction loop has run; ev'.key tells, per candidate of its
\* radar update, the track it went to
PassStep == ev'.op = "direction_tick"
PassDone == ev.op = "direction_tick"
WithinTol(f, g) == Abs(f - g) <= RadarTrackFreqTolHz
TrackIds(tracks) == {tracks[i].track_id : i \in 1..Len(tracks)}

\* C31 as stated: a track is born for a candidate only when no track in the
\* table, used or not, has a frequency within freq_tol of the candidate's
C31_BirthOnlyWithoutNearTrack ==
    [][PassStep =>
        \A i \in 1..Len(ev'.key) :
            ev'.key[i].born =>
                \A f \in ev'.key[i].table : ~WithinTol(f, ev'.key[i].freq_hz)]_vars

\* C31: a track is born for a candidate only when no track of the table that
\* is not yet associated in this update has a frequency within freq_tol of
\* the candidate's
C31_BirthOnlyWithoutNearUnusedTrack ==
    [][PassStep =>
        \A i \in 1..Len(ev'.key) :
            ev'.key[i].born =>
                \A f \in ev'.key[i].free : ~WithinTol(f, ev'.key[i].freq_hz)]_vars

\* a track was born although the table held a track not yet used, which was
\* too far off
C31_Witness ==
    /\ PassDone
    /\ \E i \in 1..Len(ev.key) : ev.key[i].born /\ ev.key[i].free # {}

\* C33: within one radar update no two candidates go to the same track,
\* whether the track was in the table before or was born in this update
C33_OneCandidatePerTrack ==
    [][PassStep =>
        \A i, j \in 1..Len(ev'.key) :
            i # j => ev'.key[i].track_id # ev'.key[j].track_id]_vars

\* the second candidate of an update was within freq_tol of a track the
\* first candidate had taken, and got a track of its own
C33_Witness ==
    /\ PassDone
    /\ Len(ev.key) = 2
    /\ ~ev.key[1].born
    /\ ev.key[2].born
    /\ \E f \in ev.key[2].table : WithinTol(f, ev.key[2].freq_hz)

\* C34: every track born gets an id greater than every id handed out
\* before, in earlier updates and earlier in the same update, so the id of
\* a removed track never comes back
C34_TrackIdsIncrease ==
    [][PassStep =>
        \A i \in 1..Len(ev'.key) :
            ev'.key[i].born =>
                /\ \A a \in radar_allocated : ev'.key[i].track_id > a
                /\ \A j \in 1..(i - 1) :
                      ev'.key[j].born => ev'.key[i].track_id > ev'.key[j].track_id]_vars

\* a track was born after an earlier track had been removed
C34_Witness ==
    /\ PassDone
    /\ \E i \in 1..Len(ev.key) :
          /\ ev.key[i].born
          /\ \E a \in radar_allocated :
                a < ev.key[i].track_id /\ a \notin TrackIds(radar_tracks)

\* C32: after every pass of the direction loop, with or without a fresh
\* audio source, no track of the table is older than 3 s and none has a
\* decayed intensity below the floor
C32_NoStaleTrackAfterEmit ==
    [][PassStep =>
        \A i \in 1..Len(radar_tracks') :
            /\ now' - radar_tracks'[i].last_seen_monotonic <= 3 * OneSecond
            /\ radar_tracks'[i].intensity
                  * Decay(now' - radar_tracks'[i].last_seen_monotonic)
                  >= RadarTrackMinIntensity * 1000]_vars

\* a pass without any fresh audio source left a track of age 3 s in the
\* table, and an earlier track is gone
C32_Witness ==
    /\ PassDone
    /\ ev.arg = ""
    /\ \E i \in 1..Len(radar_tracks) :
          now - radar_tracks[i].last_seen_monotonic = 3 * OneSecond
    /\ \E a \in radar_allocated : a \notin TrackIds(radar_tracks)

\* the peaks of the walk that passes over every failing bin: the bins by
\* descending score, each accepted exactly when it reaches both thresholds
\* and is sep_bins away from the peaks accepted before, until
\* radar_max_dots are accepted or the bins are exhausted
RECURSIVE PeakWalkSkipping(_, _, _, _)
PeakWalkSkipping(sp, order, i, peaks) ==
    IF i > Len(order) \/ Len(peaks) >= Max(1, RadarMaxDots) THEN peaks
    ELSE IF \/ BelowAbsThresh(sp, order[i])
            \/ BelowRelThresh(sp, order[i])
            \/ NearPeak(order[i], peaks)
         THEN PeakWalkSkipping(sp, order, i + 1, peaks)
    ELSE PeakWalkSkipping(sp, order, i + 1, Append(peaks, order[i]))

\* C35: the peaks picked are those of the walk that skips every failing
\* bin and stops only at radar_max_dots peaks or at the last bin
C35_PeakPicking ==
    [][ev'.op = "pick_peaks" =>
        ev'.key = PeakWalkSkipping(ev'.arg, PeakCandidates(ev'.arg), 1, <<>>)]_vars

\* C38: a class becomes active and its "started" event goes out only after a
\* positive detection of the class since the loop started, whatever the
\* clock shows when the loop starts
C38_StartedOnlyAfterDetection ==
    [][\A k \in AlarmClasses :
          /\ (EdgeStep(k) /\ ev'.arg = "started") => alarm.detected[k]
          /\ alarm_active'[k] => alarm'.detected[k]]_vars

\* C40: at most one sender that has not ended exists at any time, no sender
\* finds the generator inside another __anext__, and no frame goes to a
\* sender whose session is over
C40_SingleSender ==
    /\ Cardinality(LiveSenders) <= 1
    /\ ~(ev.op = "sender_next" /\ ev.arg = "busy")
    /\ ~(ev.op = "gen_yield" /\ ~ev.key)
====
